---- MODULE Spec2Model ----
(***************************************************************************)
(* The interactive installation: MappingEngine.apply                      *)
(* (src/src/mapping.py), OutputRouter.route (src/src/output.py),           *)
(* validate_config (src/src/config.py), InstallationEngine                *)
(* (src/src/engine.py), OscRenderer (src/renderers/osc.py) and the        *)
(* example program (src/examples/run_simulation.py).                      *)
(*                                                                         *)
(* Numbers.  A Python float is modelled as an integer count of units of   *)
(* 1/Q (Q = 10^8) that keeps a fixed number of significant digits: every  *)
(* unit below 10.0, every tenth unit from 10.0 on.  Each sum, difference  *)
(* and product is rounded to the nearest such number (ties to even), as   *)
(* a binary64 operation is rounded to the nearest representable value.    *)
(* The unit is finer than the 6 decimals round(value, 6) keeps, so        *)
(* rounding for the report is a real operation of the model.  NaN occurs  *)
(* only as a bound of a rule of a configuration; the infinities are not   *)
(* modelled.                                                               *)
(*                                                                         *)
(* Strings.  A str is the sequence of its characters, each a one-letter   *)
(* string, so that str.split is computed and not assumed.                 *)
(***************************************************************************)
EXTENDS Integers, Sequences, FiniteSets, TLC

\* MappingEngine: rules, _smooth_alpha, _smoothers; the reading of the last
\* apply and what it did (outcome); the rules that ever fired; the number
\* of apply calls made
VARIABLES rules, smooth_alpha, smoothers, reading, outcome, ever_fired, applies

\* OutputRouter: the targets it was built from (by position), _targets
\* (category -> position), each target's last_params; the params of the
\* last route call and the buckets it returned
VARIABLES targets, registry, last_params, params, routed

\* The returned buckets as the caller holds them now (the caller may write
\* into them), with the targets whose last_params is the very object handed
\* back; and what the route calls so far did: how many there were (counted
\* up to 2), whether the last one had the params of the one before it, and
\* the targets whose send it called
VARIABLES handed, history

\* InstallationEngine: the engine as __init__ left it and its frame_count
\* (engine), the frame_data of the last tick, and the frame_data handed to
\* the renderer and to the frame callbacks so far (seen)
VARIABLES engine, frame_data, seen

\* the last call of a transform function on its own: its arguments and
\* what it returned
VARIABLE call

\* OscRenderer: buffer_size, _buffer and messages_total, with the messages
\* pushed since the buffer was last empty by construction or clear_buffer,
\* the number of parameters render was given, and the last call and what
\* it returned
VARIABLE osc

\* InstallationEngine.run and the monotonic clock: where the call is in the
\* loop, the clock, and the times the call read
VARIABLE loop

\* examples/run_simulation.py, main: where it is, and the terminal cursor
VARIABLE driver

mapVars == <<rules, smooth_alpha, smoothers, reading, outcome, ever_fired, applies>>

routerVars == <<targets, registry, last_params, params, routed, handed, history>>

engineVars == <<engine, frame_data, seen>>

sideVars == <<osc, loop, driver>>

vars == <<mapVars, routerVars, engineVars, call, sideVars>>

(***************************************************************************)
(* Bounds of the model.                                                    *)
(***************************************************************************)
MaxRules == 2

MaxApplies == 2

\* length of the target list an OutputRouter is built from
MaxTargets == 2

\* ticks an InstallationEngine is followed for, and frame callbacks it is
\* given
MaxTicks == 2

MaxCallbacks == 2

\* largest buffer_size of an OscRenderer, and the messages it is followed for
MaxBufferSize == 2

MaxMessages == 5

\* the monotonic clock is followed up to MaxClock units, over MaxCalls calls
\* of step and run
MaxClock == 6

MaxCalls == 2

\* passes of the loop the simulation driver is followed for
MaxDriverFrames == 6

\* the applies of a constant input are followed for ConvergeFactor/alpha
\* calls (and a few more)
ConvergeFactor == 17

(***************************************************************************)
(* Floats as fixed-point numbers.                                          *)
(***************************************************************************)
Limb == 10^4

Q == Limb * Limb

\* ndigits of round(value, 6)
Decimals == 6

\* units of 1/Q per step of the reported grid 10^-Decimals
Grain == Q \div (10^Decimals)

Abs(x) == IF x < 0 THEN 0 - x ELSE x

Sign(x) == IF x < 0 THEN 0 - 1 ELSE 1

\* |a| * |b| / Q rounded to the nearest unit, ties to even; limb by limb,
\* so that no intermediate leaves the 32-bit integers of the checker
MulAbs(a, b) ==
    LET a1 == a \div Limb
        a0 == a % Limb
        b1 == b \div Limb
        b0 == b % Limb
        cross == a1 * b0 + a0 * b1
        low == (cross % Limb) * Limb + a0 * b0
        quo == a1 * b1 + (cross \div Limb) + (low \div Q)
        rem == low % Q
    IN  IF 2 * rem > Q \/ (2 * rem = Q /\ quo % 2 = 1) THEN quo + 1 ELSE quo

\* A float keeps a fixed number of significant digits: below 10.0 the model
\* keeps every unit of 1/Q, from 10.0 on only every tenth unit.
Coarse == 10 * Q

\* the float nearest to the real number x (ties to even)
Fl(x) ==
    IF Abs(x) < Coarse THEN x
    ELSE LET q == Abs(x) \div 10
             r == Abs(x) % 10
             n == IF r > 5 \/ (r = 5 /\ q % 2 = 1) THEN q + 1 ELSE q
         IN  Sign(x) * n * 10

\* float("nan"), which a configuration may carry as a bound of a rule: a
\* number outside the range of the others
NaN == 0 - (2^30 - 1) - 2^30

\* the float sum a + b and difference a - b
FAdd(a, b) == IF a = NaN \/ b = NaN THEN NaN ELSE Fl(a + b)

FSub(a, b) == IF a = NaN \/ b = NaN THEN NaN ELSE Fl(a - b)

\* the float product a * b
FMul(a, b) ==
    IF a = NaN \/ b = NaN THEN NaN
    ELSE Fl(Sign(a) * Sign(b) * MulAbs(Abs(a), Abs(b)))

\* the float comparisons a > b and a <= b: both false when either is NaN
PyGt(a, b) == a # NaN /\ b # NaN /\ a > b

PyLe(a, b) == a # NaN /\ b # NaN /\ a <= b

\* the largest s in lo..hi with s*s <= x (x in [0, 1])
RECURSIVE SqrtSearch(_, _, _)
SqrtSearch(lo, hi, x) ==
    IF lo >= hi THEN lo
    ELSE LET mid == (lo + hi + 1) \div 2
         IN  IF MulAbs(mid, mid) <= x THEN SqrtSearch(mid, hi, x)
             ELSE SqrtSearch(lo, mid - 1, x)

\* clamped ** 2.5 for clamped in [0, 1]
Pow25(c) == MulAbs(MulAbs(c, c), SqrtSearch(0, Q, c))

\* Python's max(a, b) and min(a, b) on floats
PyMax(a, b) == IF b > a THEN b ELSE a

PyMin(a, b) == IF b < a THEN b ELSE a

\* value cut off after 6 decimals
Truncate6(x) == (x \div Grain) * Grain

\* round(value, 6): the nearest multiple of 10^-6, ties to even
Round6(x) ==
    LET q == x \div Grain
        r == x % Grain
    IN  IF x = NaN THEN NaN
        ELSE IF 2 * r > Grain \/ (2 * r = Grain /\ q % 2 = 1)
        THEN (q + 1) * Grain
        ELSE q * Grain

\* a decimal literal n/d as a float
Dec(n, d) == n * (Q \div d)

(***************************************************************************)
(* Strings.                                                                *)
(***************************************************************************)
Dot == "."

\* s.split("."): the segments between the dots
RECURSIVE SplitFrom(_, _, _)
SplitFrom(s, i, cur) ==
    IF i > Len(s) THEN <<cur>>
    ELSE IF s[i] = Dot THEN <<cur>> \o SplitFrom(s, i + 1, <<>>)
    ELSE SplitFrom(s, i + 1, Append(cur, s[i]))

Split(s) == SplitFrom(s, 1, <<>>)

\* the index of the first dot of s, 0 when there is none
RECURSIVE FindDot(_, _)
FindDot(s, i) ==
    IF i > Len(s) THEN 0
    ELSE IF s[i] = Dot THEN i
    ELSE FindDot(s, i + 1)

\* key.split(".", 1): at most two parts, cut at the first dot
Split1(s) ==
    LET p == FindDot(s, 1)
    IN  IF p = 0 THEN <<s>>
        ELSE <<SubSeq(s, 1, p - 1), SubSeq(s, p + 1, Len(s))>>

(***************************************************************************)
(* Dictionaries: a dict is a function on its keys.                         *)
(***************************************************************************)
EmptyDict == [k \in {} |-> 0]

Put(d, key, val) == [k \in (DOMAIN d) \cup {key} |-> IF k = key THEN val ELSE d[k]]

(***************************************************************************)
(* Mapping rules (MappingRule) and the transforms.                         *)
(***************************************************************************)
MappingRule(src, tgt, tr, lo, hi) ==
    [source_param |-> src, target_param |-> tgt, transform |-> tr,
     min_out |-> lo, max_out |-> hi]

\* linear scaling clamped at 1 only
linear_map_clamped_above(value, min_out, max_out) ==
    LET clamped == PyMin(Q, value)
    IN  FAdd(min_out, FMul(clamped, FSub(max_out, min_out)))

\* linear scaling without the clamp
linear_map_unclamped(value, min_out, max_out) ==
    FAdd(min_out, FMul(value, FSub(max_out, min_out)))

linear_map(value, min_out, max_out) ==
    LET clamped == PyMax(0, PyMin(Q, value))
    IN  FAdd(min_out, FMul(clamped, FSub(max_out, min_out)))

exponential_map(value, min_out, max_out) ==
    LET clamped == PyMax(0, PyMin(Q, value))
        curved == Pow25(clamped)
    IN  FAdd(min_out, FMul(curved, FSub(max_out, min_out)))

\* a gate that opens only above 0.5
threshold_gate_above(value, min_out, max_out) ==
    IF value > Q \div 2 THEN max_out ELSE min_out

threshold_gate(value, min_out, max_out) ==
    IF value >= Q \div 2 THEN max_out ELSE min_out

invert(value, min_out, max_out) ==
    LET clamped == PyMax(0, PyMin(Q, value))
        inverted == FSub(Q, clamped)
    IN  FAdd(min_out, FMul(inverted, FSub(max_out, min_out)))

\* the keys of the TRANSFORMS registry
TransformNames == {"linear", "exponential", "threshold", "invert"}

\* TRANSFORMS.get(name, linear_map)(raw, min_out, max_out)
Transform(name, raw, min_out, max_out) ==
    IF name = "linear" THEN linear_map(raw, min_out, max_out)
    ELSE IF name = "exponential" THEN exponential_map(raw, min_out, max_out)
    ELSE IF name = "threshold" THEN threshold_gate(raw, min_out, max_out)
    ELSE IF name = "invert" THEN invert(raw, min_out, max_out)
    ELSE linear_map(raw, min_out, max_out)

(***************************************************************************)
(* Sensor readings (SensorData) and the values a data dict may hold.       *)
(***************************************************************************)
None == [k |-> "None", v |-> 0]

\* a Python float
Float(x) == [k |-> "float", v |-> x]

\* a str that float() parses, e.g. "0.5"
NumStr(x) == [k |-> "str", v |-> x]

\* a str that float() rejects with ValueError, e.g. "abc"
BadStr == [k |-> "badstr", v |-> 0]

\* a list: float() rejects it with TypeError
List == [k |-> "list", v |-> 0]

\* an int beyond the float range, e.g. 10**400: float() raises OverflowError
BigInt == [k |-> "bigint", v |-> 0]

SensorData(type, data) == [sensor_type |-> type, data |-> data]

\* float(value): the float, or the exception raised
PyFloat(value) ==
    IF value.k \in {"float", "str"} THEN [tag |-> "float", v |-> value.v]
    ELSE IF value.k = "badstr" THEN [tag |-> "ValueError", v |-> 0]
    ELSE IF value.k = "bigint" THEN [tag |-> "OverflowError", v |-> 0]
    ELSE [tag |-> "TypeError", v |-> 0]

(***************************************************************************)
(* _Smoother: alpha and _value (None until the first call).                *)
(***************************************************************************)
NoValue == [tag |-> "None", v |-> 0]

NewSmoother(alpha) == [alpha |-> alpha, value |-> NoValue]

\* a smoother that adds alpha * raw, without subtracting the old state
SmootherCallNoBlend(sm, raw) ==
    IF sm.value.tag = "None"
    THEN [sm EXCEPT !.value = [tag |-> "float", v |-> raw]]
    ELSE [sm EXCEPT !.value =
            [tag |-> "float", v |-> FAdd(sm.value.v, FMul(sm.alpha, raw))]]

\* a smoother that starts from 0.0 instead of from its first sample
SmootherCallFromZero(sm, raw) ==
    LET old == IF sm.value.tag = "None" THEN 0 ELSE sm.value.v
    IN  [sm EXCEPT !.value =
            [tag |-> "float", v |-> FAdd(old, FMul(sm.alpha, FSub(raw, old)))]]

\* _Smoother.__call__(raw): the smoother after the call; it returns _value
SmootherCall(sm, raw) ==
    IF sm.value.tag = "None"
    THEN [sm EXCEPT !.value = [tag |-> "float", v |-> raw]]
    ELSE [sm EXCEPT !.value =
            [tag |-> "float", v |-> FAdd(sm.value.v, FMul(sm.alpha, FSub(raw, sm.value.v)))]]

(***************************************************************************)
(* MappingEngine.                                                          *)
(***************************************************************************)
\* _resolve without the test on the number of segments
ResolveAnyLength(data, dotpath) ==
    LET parts == Split(dotpath)
        key == parts[Len(parts)]
    IN  IF key \notin DOMAIN data THEN [tag |-> "None", v |-> 0]
        ELSE IF data[key] = None THEN [tag |-> "None", v |-> 0]
        ELSE LET f == PyFloat(data[key])
             IN  IF f.tag \in {"TypeError", "ValueError"}
                 THEN [tag |-> "None", v |-> 0]
                 ELSE f

\* MappingEngine._resolve(data, dotpath): a float, None, or the exception
\* that float() raises and the except clause does not catch
Resolve(data, dotpath) ==
    LET parts == Split(dotpath)
    IN  IF Len(parts) < 2 THEN [tag |-> "None", v |-> 0]
        ELSE LET key == parts[Len(parts)]
             IN  IF key \notin DOMAIN data THEN [tag |-> "None", v |-> 0]
                 ELSE IF data[key] = None THEN [tag |-> "None", v |-> 0]
                 ELSE LET f == PyFloat(data[key])
                      IN  IF f.tag \in {"TypeError", "ValueError"}
                          THEN [tag |-> "None", v |-> 0]
                          ELSE f

\* MappingEngine._get_smoother(key): the registry after the lookup
GetSmoother(sms, key, alpha) ==
    IF key \notin DOMAIN sms THEN Put(sms, key, NewSmoother(alpha)) ELSE sms

\* a prefix test by startswith instead of equality
PrefixMatchesStartswith(rule, sensor_data) ==
    LET t == sensor_data.sensor_type
    IN  /\ Len(rule.source_param) >= Len(t)
        /\ SubSeq(rule.source_param, 1, Len(t)) = t

\* the source prefix test of apply: does the rule address this sensor
PrefixMatches(rule, sensor_data) ==
    Split(rule.source_param)[1] = sensor_data.sensor_type

\* every rule but the threshold gate goes through a smoother
UsesSmootherUnlessGate(rule) == rule.transform # "threshold"

\* linear rules are smoothed too
UsesSmootherOrLinear(rule) == rule.transform \in {"smooth", "linear"}

\* transform_name == "smooth": the rule goes through its smoother
UsesSmoother(rule) == rule.transform = "smooth"

\* the key under which apply asks _get_smoother for the rule's smoother
SmootherKey(rule) == rule.target_param

\* results.setdefault(rule.target_param, round(value, 6))
StoreFirst(results, key, val) ==
    IF key \in DOMAIN results THEN results ELSE Put(results, key, Round6(val))

\* results[rule.target_param] = round(value, 6)
Store(results, key, val) == Put(results, key, Round6(val))

\* one pass of the for loop of apply over rule i, from the loop state st:
\* results, the smoother registry, the exception raised (if any), and a
\* record of what each evaluated rule did (fired: the rules that stored a
\* value, with the raw value and the value stored; updates: the smoother
\* calls made, in order, with the state each left)
ApplyRule(rs, i, sensor_data, alpha, st) ==
    LET rule == rs[i]
        raw == Resolve(sensor_data.data, rule.source_param)
    IN  IF ~PrefixMatches(rule, sensor_data) THEN st
        ELSE IF raw.tag = "None" THEN st
        ELSE IF raw.tag # "float"
             THEN [st EXCEPT !.raised = raw.tag, !.raisedAt = i]
        ELSE IF UsesSmoother(rule)
             THEN LET key == SmootherKey(rule)
                      got == GetSmoother(st.smoothers, key, alpha)
                      sm == SmootherCall(got[key], raw.v)
                      value == linear_map(sm.value.v, rule.min_out, rule.max_out)
                      res == Store(st.results, rule.target_param, value)
                  IN  [st EXCEPT
                         !.smoothers = Put(got, key, sm),
                         !.results = res,
                         !.fired = Append(@, [rule |-> i, raw |-> raw.v,
                                              out |-> Round6(value)]),
                         !.updates = Append(@, [rule |-> i, key |-> key,
                                                raw |-> raw.v,
                                                state |-> sm.value.v])]
             ELSE LET value == Transform(rule.transform, raw.v,
                                         rule.min_out, rule.max_out)
                      res == Store(st.results, rule.target_param, value)
                  IN  [st EXCEPT
                         !.results = res,
                         !.fired = Append(@, [rule |-> i, raw |-> raw.v,
                                              out |-> Round6(value)])]

RECURSIVE ApplyFrom(_, _, _, _, _)
ApplyFrom(rs, i, sensor_data, alpha, st) ==
    IF i > Len(rs) \/ st.raised # "no" THEN st
    ELSE CHOOSE end \in
            {ApplyFrom(rs, i + 1, sensor_data, alpha, next) :
                next \in {ApplyRule(rs, i, sensor_data, alpha, st)}} : TRUE

\* MappingEngine.apply(sensor_data) on an engine with rules rs and the
\* smoother registry sms
ApplyRun(rs, sms, alpha, sensor_data) ==
    ApplyFrom(rs, 1, sensor_data, alpha,
              [results |-> EmptyDict, smoothers |-> sms, raised |-> "no",
               raisedAt |-> 0, fired |-> <<>>, updates |-> <<>>])

(***************************************************************************)
(* The rule lists and readings the model draws from.                       *)
(***************************************************************************)
d_a == <<"d", ".", "a">>

d_b == <<"d", ".", "b">>

dd_c_a == <<"d", "d", ".", "c", ".", "a">>

m_a == <<"m", ".", "a">>

v_x == <<"v", ".", "x">>

v_y == <<"v", ".", "y">>

RuleCatalogue ==
    { MappingRule(d_a, v_x, "linear", 0, Q),
      MappingRule(d_a, v_x, "smooth", 0, Q),
      MappingRule(d_b, v_x, "smooth", Q + 49, 20 * Q),
      MappingRule(dd_c_a, v_x, "smooth", 0, Q),
      MappingRule(dd_c_a, v_y, "smooth", 0, Q),
      MappingRule(d_a, v_y, "gamma", 0, Q),
      MappingRule(d_b, v_y, "threshold", Dec(1, 4) + 51, 20 * Q),
      MappingRule(<<"d">>, v_y, "linear", 0, Q),
      MappingRule(d_a, <<"n">>, "invert", Q, 0),
      MappingRule(m_a, v_y, "exponential", 0 - Q, Q) }

RuleLists == UNION { [1..n -> RuleCatalogue] : n \in 0..MaxRules }

Data(a, b) == [k \in {<<"a">>, <<"b">>} |-> IF k = <<"a">> THEN a ELSE b]

\* a data dict that also has a field named like the sensor type
WithD(a, b, d) == Put(Data(a, b), <<"d">>, d)

OnlyB(b) == [k \in {<<"b">>} |-> b]

Readings ==
    { SensorData(<<"d">>, Data(Float(Dec(3, 10)), Float(Dec(8, 10)))),
      SensorData(<<"d">>, WithD(Float(Dec(8, 10)), Float(Dec(3, 10)),
                                Float(Dec(4, 10)))),
      SensorData(<<"d">>, Data(None, Float(Dec(3, 2)))),
      SensorData(<<"d">>, OnlyB(Float(0 - Dec(1, 2)))),
      SensorData(<<"d">>, Data(BadStr, List)),
      SensorData(<<"d">>, Data(BigInt, Float(Dec(1, 2)))),
      SensorData(<<"d", "d">>, Data(NumStr(Dec(1, 2)), None)),
      SensorData(<<"d", "d">>, Data(Float(Dec(1, 4) + 49), None)),
      SensorData(<<"m">>, Data(Float(Dec(3, 10)), None)) }

\* the default of MappingEngine's smooth_alpha
DefaultAlpha == Dec(15, 100)

NoReading == SensorData(<<>>, EmptyDict)

(***************************************************************************)
(* OutputTarget and OutputRouter.                                          *)
(***************************************************************************)
\* a registry that keeps the first target of a category
RECURSIVE RegisterFirst(_, _, _)
RegisterFirst(ts, i, reg) ==
    IF i > Len(ts) THEN reg
    ELSE RegisterFirst(ts, i + 1,
                       IF ts[i] \in DOMAIN reg THEN reg ELSE Put(reg, ts[i], i))

\* OutputRouter.__init__: self._targets[t.target_type] = t for t in targets
RECURSIVE Register(_, _, _)
Register(ts, i, reg) ==
    IF i > Len(ts) THEN reg
    ELSE Register(ts, i + 1, Put(reg, ts[i], i))

\* key.rsplit(".", 1): cut at the last dot
SplitAtLastDot(s) ==
    LET dots == {n \in 1..Len(s) : s[n] = Dot}
        p == IF dots = {} THEN 0 ELSE CHOOSE n \in dots : \A m \in dots : m <= n
    IN  IF p = 0 THEN <<s>>
        ELSE <<SubSeq(s, 1, p - 1), SubSeq(s, p + 1, Len(s))>>

\* parts = key.split(".", 1) in route
RouteParts(key) == Split1(key)

\* the first loop of route: the buckets after the keys of todo
RECURSIVE Bucket(_, _, _, _)
Bucket(todo, ps, reg, buckets) ==
    IF todo = {} THEN buckets
    ELSE LET key == CHOOSE k \in todo : TRUE
             parts == RouteParts(key)
             rest == todo \ {key}
         IN  IF Len(parts) # 2 THEN Bucket(rest, ps, reg, buckets)
             ELSE IF parts[1] \notin DOMAIN reg THEN Bucket(rest, ps, reg, buckets)
             ELSE LET old == IF parts[1] \in DOMAIN buckets
                             THEN buckets[parts[1]] ELSE EmptyDict
                  IN  Bucket(rest, ps, reg,
                             Put(buckets, parts[1], Put(old, parts[2], ps[key])))

\* a send that stores only the entries that differ from the stored ones
SendChanged(lp, i, bucket) ==
    LET keep == {n \in DOMAIN bucket :
                   ~(n \in DOMAIN lp[i] /\ lp[i][n] = bucket[n])}
    IN  [lp EXCEPT ![i] = [n \in keep |-> bucket[n]]]

\* a send that merges the bucket into the stored parameters
SendMerged(lp, i, bucket) ==
    [lp EXCEPT ![i] = [n \in DOMAIN lp[i] \cup DOMAIN bucket |->
                          IF n \in DOMAIN bucket THEN bucket[n] ELSE lp[i][n]]]

\* OutputTarget.send(params) on the target at position i:
\* self.last_params = dict(params)
Send(lp, i, bucket) == [lp EXCEPT ![i] = bucket]

\* dict(params) in send is a new object: the target does not keep the
\* bucket it was handed
SendKeepsBucket == FALSE

\* the targets whose send the second loop of route calls
SentTo(buckets, reg) == {reg[prefix] : prefix \in DOMAIN buckets}

\* a second loop that sends to every registered target, an empty bucket
\* where the call has none for it
DeliverToAll(todo, buckets, reg, lp) ==
    [i \in DOMAIN lp |->
        IF \E c \in DOMAIN reg : reg[c] = i
        THEN LET c == CHOOSE c \in DOMAIN reg : reg[c] = i
             IN  IF c \in DOMAIN buckets THEN buckets[c] ELSE EmptyDict
        ELSE lp[i]]

\* the second loop of route: self._targets[prefix].send(bucket)
RECURSIVE Deliver(_, _, _, _)
Deliver(todo, buckets, reg, lp) ==
    IF todo = {} THEN lp
    ELSE LET prefix == CHOOSE c \in todo : TRUE
         IN  Deliver(todo \ {prefix}, buckets, reg,
                     Send(lp, reg[prefix], buckets[prefix]))

(***************************************************************************)
(* The target lists and flat parameter mappings the model draws from.      *)
(***************************************************************************)
TargetTypes == {<<"v">>, <<"u">>}

TargetLists == UNION { [1..n -> TargetTypes] : n \in 0..MaxTargets }

v_y_z == <<"v", ".", "y", ".", "z">>

u_x == <<"u", ".", "x">>

s_x == <<"s", ".", "x">>

\* the keys a flat parameter mapping may hold, each with its possible values
ParamValues ==
    [k \in {v_x, v_y_z, u_x, s_x, <<"n">>} |->
        IF k = v_x THEN {Dec(1, 2), Dec(3, 4)} ELSE {Dec(1, 4)}]

ParamDicts ==
    UNION { {d \in [K -> UNION {ParamValues[k] : k \in K}] :
                \A k \in K : d[k] \in ParamValues[k]} :
            K \in SUBSET DOMAIN ParamValues }

(***************************************************************************)
(* The engine and the router as state machines.                            *)
(***************************************************************************)
\* a MappingEngine over rs, as __init__ leaves it
NewEngine(rs, alpha) ==
    /\ rules = rs
    /\ smooth_alpha = alpha
    /\ smoothers = EmptyDict
    /\ reading = NoReading
    /\ outcome = [status |-> "none", results |-> EmptyDict, before |-> EmptyDict,
                  seen |-> {}, raisedAt |-> 0, fired |-> <<>>, updates |-> <<>>]
    /\ ever_fired = {}
    /\ applies = 0

\* no InstallationEngine has been constructed, no transform called
NoInstallation ==
    /\ engine = [state |-> "none", errors |-> <<>>, raised |-> "no",
                 created |-> {},
                 config |-> [name |-> <<>>, sensors |-> <<>>,
                             mappings |-> <<>>, outputs |-> <<>>,
                             renderer |-> "", tick_rate |-> 0],
                 sensors |-> <<>>, tick_rate |-> 0, renderer |-> FALSE,
                 callbacks |-> 0, registered |-> <<>>, frame_count |-> 0]
    /\ frame_data = [frame |-> 0, params |-> EmptyDict, routed |-> EmptyDict]
    /\ seen = [rendered |-> <<>>, called |-> <<>>, events |-> <<>>,
               merged |-> <<>>]

NoCall == [fn |-> "none", value |-> 0, min_out |-> 0, max_out |-> 0, out |-> 0]

\* no OscRenderer has been constructed
NoOsc ==
    [state |-> "none", buffer_size |-> 0, buffer |-> <<>>,
     messages_total |-> 0, pushed |-> <<>>, given |-> 0,
     last |-> "none", returned |-> <<>>]

\* run has not been called
NoLoop == [pc |-> "idle"]

\* main has not started
NoDriver == [pc |-> "idle"]

\* no renderer of its own, no run under the clock, no driver
Idle == osc = NoOsc /\ loop = NoLoop /\ driver = NoDriver

\* an OutputRouter over the targets ts, as __init__ leaves it
NewRouter(ts) ==
    /\ targets = ts
    /\ registry = Register(ts, 1, EmptyDict)
    /\ last_params = [i \in 1..Len(ts) |-> EmptyDict]
    /\ params = EmptyDict
    /\ routed = EmptyDict
    /\ handed = [buckets |-> EmptyDict, shared |-> {}]
    /\ history = [calls |-> 0, repeated |-> FALSE, sent |-> {}]

Init ==
    /\ \E rs \in RuleLists : NewEngine(rs, DefaultAlpha)
    /\ NewRouter(<<>>)
    /\ NoInstallation
    /\ call = NoCall
    /\ Idle

\* one call engine.apply(r)
ApplyCall(r) ==
    /\ LET run == ApplyRun(rules, smoothers, smooth_alpha, r)
       IN  /\ smoothers' = run.smoothers
           /\ outcome' = [status |-> IF run.raised = "no" THEN "returned"
                                     ELSE run.raised,
                          results |-> IF run.raised = "no" THEN run.results
                                      ELSE EmptyDict,
                          before |-> smoothers,
                          seen |-> ever_fired,
                          raisedAt |-> run.raisedAt,
                          fired |-> run.fired,
                          updates |-> run.updates]
           /\ ever_fired' = ever_fired \cup
                               {run.fired[n].rule : n \in 1..Len(run.fired)}
    /\ reading' = r
    /\ applies' = applies + 1
    /\ UNCHANGED <<rules, smooth_alpha>>
    /\ UNCHANGED <<routerVars, engineVars, call, sideVars>>

Apply(r) ==
    /\ applies < MaxApplies
    /\ ApplyCall(r)

Next == \E r \in Readings : Apply(r)

Spec == Init /\ [][Next]_vars

(***************************************************************************)
(* One smooth rule fed the same raw input on every apply.                  *)
(***************************************************************************)
AlphaSet == {Dec(15, 100), Dec(1, 2), Q}

SmoothRules == { MappingRule(d_a, v_x, "smooth", 0, Q),
                 MappingRule(d_a, v_x, "smooth", 10 * Q, 20 * Q) }

\* the constant raw inputs, and the states the smoother may start from
ConstantInputs == {Dec(3, 10), Dec(1, 4) + 49}

PriorStates == {0, Q, Dec(3, 10) + 1, Dec(1, 4)}

\* ceil(ConvergeFactor / alpha)
StepsBound(alpha) == (ConvergeFactor * Q + alpha - 1) \div alpha

MaxSmoothApplies == StepsBound(Dec(15, 100)) + 2

ConvergeInit ==
    /\ \E rule \in SmoothRules : rules = <<rule>>
    /\ smooth_alpha \in AlphaSet
    /\ \/ smoothers = EmptyDict
       \/ \E s \in PriorStates :
             smoothers = Put(EmptyDict, v_x,
                             [alpha |-> smooth_alpha,
                              value |-> [tag |-> "float", v |-> s]])
    /\ \E v \in ConstantInputs :
          reading = SensorData(<<"d">>, Data(Float(v), None))
    /\ outcome = [status |-> "none", results |-> EmptyDict, before |-> EmptyDict,
                  seen |-> {}, raisedAt |-> 0, fired |-> <<>>, updates |-> <<>>]
    /\ ever_fired = {}
    /\ applies = 0
    /\ NewRouter(<<>>)
    /\ NoInstallation
    /\ call = NoCall
    /\ Idle

\* engine.apply of the same reading once more
ApplySame ==
    /\ applies < MaxSmoothApplies
    /\ ApplyCall(reading)

SpecConverge == ConvergeInit /\ [][ApplySame]_vars

(***************************************************************************)
(* The router alone.                                                       *)
(***************************************************************************)
RouterInit ==
    /\ NewEngine(<<>>, DefaultAlpha)
    /\ \E ts \in TargetLists : NewRouter(ts)
    /\ NoInstallation
    /\ call = NoCall
    /\ Idle

\* one call router.route(p)
Route(p) ==
    /\ LET buckets == Bucket(DOMAIN p, p, registry, EmptyDict)
       IN  /\ last_params' = Deliver(DOMAIN buckets, buckets, registry, last_params)
           /\ routed' = buckets
           /\ handed' = [buckets |-> buckets,
                         shared |-> IF SendKeepsBucket
                                    THEN SentTo(buckets, registry) ELSE {}]
           /\ history' = [calls |-> IF history.calls < 2
                                    THEN history.calls + 1 ELSE 2,
                          repeated |-> history.calls > 0 /\ p = params,
                          sent |-> SentTo(buckets, registry)]
    /\ params' = p
    /\ UNCHANGED <<targets, registry>>
    /\ UNCHANGED <<mapVars, engineVars, call, sideVars>>

\* the caller of route (a renderer or a frame callback, which are handed the
\* returned buckets) writes value under name into the bucket of category c
CallerWrites(c, name, value) ==
    /\ c \in DOMAIN handed.buckets
    /\ handed' = [handed EXCEPT !.buckets[c] = Put(@, name, value)]
    /\ last_params' =
          [i \in DOMAIN last_params |->
              IF i \in handed.shared /\ targets[i] = c
              THEN Put(handed.buckets[c], name, value)
              ELSE last_params[i]]
    /\ UNCHANGED <<targets, registry, params, routed, history>>
    /\ UNCHANGED <<mapVars, engineVars, call, sideVars>>

RouterNext ==
    \/ \E p \in ParamDicts : Route(p)
    \/ \E c \in TargetTypes : CallerWrites(c, <<"w">>, Dec(9, 10))

SpecRouter == RouterInit /\ [][RouterNext]_vars

(***************************************************************************)
(* Configuration and its validator (src/src/config.py).                    *)
(***************************************************************************)
\* str.strip(): s without its leading and trailing blanks
RECURSIVE LStrip(_)
LStrip(s) == IF s # <<>> /\ s[1] = " " THEN LStrip(Tail(s)) ELSE s

RECURSIVE RStrip(_)
RStrip(s) ==
    IF s # <<>> /\ s[Len(s)] = " " THEN RStrip(SubSeq(s, 1, Len(s) - 1)) ELSE s

Strip(s) == RStrip(LStrip(s))

\* the keys of SENSOR_REGISTRY (sensor types are written with the short
\* names the readings of the model use)
SENSOR_REGISTRY == {<<"d">>, <<"d", "d">>, <<"m">>}

\* the keys of OUTPUT_REGISTRY
OUTPUT_REGISTRY == TargetTypes

valid_renderers == {"terminal", "json_stream", "osc"}

InstallationConfig(name, sensors, mappings, outputs, renderer, tick_rate) ==
    [name |-> name, sensors |-> sensors, mappings |-> mappings,
     outputs |-> outputs, renderer |-> renderer, tick_rate |-> tick_rate]

\* the errors of the sensors from position i on
RECURSIVE SensorErrors(_, _)
SensorErrors(ss, i) ==
    IF i > Len(ss) THEN <<>>
    ELSE (IF ss[i] \notin SENSOR_REGISTRY
          THEN <<[error |-> "unknown sensor type", at |-> i]>> ELSE <<>>)
         \o SensorErrors(ss, i + 1)

\* the errors of the mapping rules from position i on
RECURSIVE MappingErrors(_, _)
MappingErrors(ms, i) ==
    IF i > Len(ms) THEN <<>>
    ELSE (IF ms[i].source_param = <<>>
          THEN <<[error |-> "source_param is empty", at |-> i]>> ELSE <<>>)
         \o (IF ms[i].target_param = <<>>
             THEN <<[error |-> "target_param is empty", at |-> i]>> ELSE <<>>)
         \o (IF PyGt(ms[i].min_out, ms[i].max_out)
             THEN <<[error |-> "min_out > max_out", at |-> i]>> ELSE <<>>)
         \o MappingErrors(ms, i + 1)

\* the errors of the outputs from position i on
RECURSIVE OutputErrors(_, _)
OutputErrors(os, i) ==
    IF i > Len(os) THEN <<>>
    ELSE (IF os[i] \notin OUTPUT_REGISTRY
          THEN <<[error |-> "unknown output type", at |-> i]>> ELSE <<>>)
         \o OutputErrors(os, i + 1)

\* validate_config(config): the list of errors, in the order of the checks
validate_config(config) ==
    (IF config.name = <<>> \/ Strip(config.name) = <<>>
     THEN <<[error |-> "name is empty", at |-> 0]>> ELSE <<>>)
    \o (IF config.sensors = <<>>
        THEN <<[error |-> "no sensor", at |-> 0]>> ELSE <<>>)
    \o SensorErrors(config.sensors, 1)
    \o (IF config.mappings = <<>>
        THEN <<[error |-> "no mapping rule", at |-> 0]>> ELSE <<>>)
    \o MappingErrors(config.mappings, 1)
    \o (IF config.outputs = <<>>
        THEN <<[error |-> "no output target", at |-> 0]>> ELSE <<>>)
    \o OutputErrors(config.outputs, 1)
    \o (IF config.tick_rate < 1
        THEN <<[error |-> "tick_rate < 1", at |-> 0]>> ELSE <<>>)
    \o (IF config.renderer \notin valid_renderers
        THEN <<[error |-> "unknown renderer", at |-> 0]>> ELSE <<>>)

(***************************************************************************)
(* InstallationEngine (src/src/engine.py).                                 *)
(***************************************************************************)
\* the configurations the model constructs engines from
ConfigNames == {<<>>, <<" ">>, <<"x">>}

ConfigSensors == {<<>>, <<<<"z">>>>, <<<<"d">>, <<"m">>>>}

ConfigMappings ==
    {<<>>,
     <<MappingRule(d_a, v_x, "smooth", 0, Q),
       MappingRule(d_a, <<"n">>, "linear", 0, Q),
       MappingRule(d_b, s_x, "linear", 0, Q)>>,
     <<MappingRule(d_a, v_x, "linear", NaN, Q)>>,
     <<MappingRule(<<"m", ".", "a">>, v_x, "linear", 0, Q),
       MappingRule(d_a, v_x, "linear", 0, Q)>>,
     <<MappingRule(<<>>, v_x, "linear", 0, Q)>>,
     <<MappingRule(d_a, <<>>, "linear", 0, Q)>>,
     <<MappingRule(d_a, v_x, "linear", Q, 0)>>}

ConfigOutputs ==
    {<<>>, <<<<"v">>>>, <<<<"z">>>>}

ConfigTickRates == {0, 30}

ConfigRenderers == {"osc", "curses"}

Configs ==
    {InstallationConfig(n, ss, ms, os, r, t) :
        n \in ConfigNames, ss \in ConfigSensors, ms \in ConfigMappings,
        os \in ConfigOutputs, r \in ConfigRenderers, t \in ConfigTickRates}

\* what Sensor.read() of a sensor of the given type may return: its data
\* holds every field of the sensor, and floats only
Generated(type) ==
    {r \in Readings :
        /\ r.sensor_type = type
        /\ {<<"a">>, <<"b">>} \subseteq DOMAIN r.data
        /\ \A key \in DOMAIN r.data : r.data[key].k = "float"}
    \cup (IF type = <<"m">>
          THEN {SensorData(type, Put(EmptyDict, <<"a">>, Float(Dec(3, 10))))}
          ELSE {})

\* one row of readings: a reading for each sensor of the engine, in order
ReadingRows(sensors) ==
    {row \in [1..Len(sensors) -> Readings \cup UNION {Generated(t) : t \in SENSOR_REGISTRY}] :
        \A i \in 1..Len(sensors) : row[i] \in Generated(sensors[i])}

\* a merge that keeps the entries d has already
UpdateKeepingEarlier(d, e) ==
    [k \in DOMAIN d \cup DOMAIN e |-> IF k \in DOMAIN d THEN d[k] ELSE e[k]]

\* dict.update: d with the entries of e written over it
Update(d, e) ==
    [k \in DOMAIN d \cup DOMAIN e |-> IF k \in DOMAIN e THEN e[k] ELSE d[k]]

\* the state of the loop over the sensors in _tick after the apply call
\* run on the reading rd: all_params.update(mapped)
Mapped(st, run, rd) ==
    [all_params |-> Update(st.all_params, run.results),
     smoothers |-> run.smoothers,
     reading |-> rd,
     outcome |-> [status |-> "returned", results |-> run.results,
                  before |-> st.smoothers, seen |-> st.ever_fired,
                  raisedAt |-> run.raisedAt, fired |-> run.fired,
                  updates |-> run.updates],
     ever_fired |-> st.ever_fired \cup
                      {run.fired[n].rule : n \in 1..Len(run.fired)},
     applies |-> st.applies + 1,
     merged |-> Append(st.merged, run.results)]

\* the loop over the sensors in _tick, from sensor i on: st holds
\* all_params, the smoothers, and the last reading with what apply did on it
RECURSIVE ReadAndMap(_, _, _)
ReadAndMap(row, i, st) ==
    IF i > Len(row) THEN st
    ELSE CHOOSE end \in
            {ReadAndMap(row, i + 1, next) :
                next \in {Mapped(st, run, row[i]) :
                            run \in {ApplyRun(rules, st.smoothers,
                                              smooth_alpha, row[i])}}} : TRUE

\* the calls of a pass with the callbacks called before the renderer
CallsBackFirst(es, data) ==
    [j \in 1..engine.callbacks |->
        [by |-> "callback", nr |-> j, object |-> es.frame_count + 1,
         data |-> data]]
    \o (IF engine.renderer
        THEN <<[by |-> "renderer", nr |-> 0, object |-> es.frame_count + 1,
                data |-> data]>>
        ELSE <<>>)

\* what the renderer and the frame callbacks are called with in a pass, in
\* the order of the calls: the renderer if there is one, then the callbacks
\* in the order of _frame_callbacks.  object tells the dicts _tick made
\* apart: it is the number of the pass that made the dict.
Calls(es, data) ==
    (IF engine.renderer
     THEN <<[by |-> "renderer", nr |-> 0, object |-> es.frame_count + 1,
             data |-> data]>>
     ELSE <<>>)
    \o [j \in 1..engine.callbacks |->
           [by |-> "callback", nr |-> j, object |-> es.frame_count + 1,
            data |-> data]]

\* the engine state es after _tick mapped the readings and route returned
\* buckets: frame_count += 1, render, callbacks
Framed(es, mapped, buckets, data) ==
    [smoothers |-> mapped.smoothers,
     reading |-> mapped.reading,
     outcome |-> mapped.outcome,
     ever_fired |-> mapped.ever_fired,
     applies |-> mapped.applies,
     last_params |-> Deliver(DOMAIN buckets, buckets, registry, es.last_params),
     params |-> mapped.all_params,
     routed |-> buckets,
     history |-> [calls |-> IF es.history.calls < 2
                            THEN es.history.calls + 1 ELSE 2,
                  repeated |-> es.history.calls > 0
                                  /\ mapped.all_params = es.params,
                  sent |-> SentTo(buckets, registry)],
     frame_count |-> es.frame_count + 1,
     frame_data |-> data,
     rendered |-> IF engine.renderer THEN Append(es.rendered, data)
                  ELSE es.rendered,
     called |-> es.called \o [j \in 1..engine.callbacks |-> data],
     events |-> es.events \o Calls(es, data),
     merged |-> mapped.merged]

\* frame_data numbered from 1
FrameDataFromOne(es, mapped, buckets) ==
    [frame |-> es.frame_count + 1, params |-> mapped.all_params,
     routed |-> buckets]

\* the frame_data _tick returns
FrameData(es, mapped, buckets) ==
    [frame |-> es.frame_count, params |-> mapped.all_params,
     routed |-> buckets]

\* the rest of the loop body once the sensors are read and mapped:
\* self.router.route(all_params), the frame_data, and what follows _tick
Routed(es, mapped) ==
    CHOOSE end \in
       {Framed(es, mapped, buckets, FrameData(es, mapped, buckets)) :
           buckets \in {Bucket(DOMAIN mapped.all_params, mapped.all_params,
                               registry, EmptyDict)}} : TRUE

\* one pass of the loop body shared by step and run, on the engine state es
\* with the readings row: _tick, frame_count += 1, render, callbacks
TickOnce(es, row) ==
    CHOOSE end \in
       {Routed(es, mapped) :
           mapped \in {ReadAndMap(row, 1,
                          [all_params |-> EmptyDict,
                           smoothers |-> es.smoothers,
                           reading |-> es.reading, outcome |-> es.outcome,
                           ever_fired |-> es.ever_fired,
                           applies |-> es.applies,
                           merged |-> <<>>])}} : TRUE

\* the passes of the loop for the rows of readings, from row i on
RECURSIVE TickAll(_, _, _)
TickAll(es, rows, i) ==
    IF i > Len(rows) THEN es
    ELSE CHOOSE end \in
            {TickAll(next, rows, i + 1) :
                next \in {TickOnce(es, rows[i])}} : TRUE

\* OscRenderer.render: the address of the message for a key of params,
\* after the address prefix: "/" and the key with its dots replaced by "/"
OscAddress(key) ==
    <<"/">> \o [i \in 1..Len(key) |-> IF key[i] = Dot THEN "/" ELSE key[i]]

\* the addresses of the messages OscRenderer.render buffers for a frame
OscAddresses(data) == {OscAddress(key) : key \in DOMAIN data.params}

\* InstallationEngine(config, renderer): __init__ validates first and
\* raises ValueError on any error; only then are the sensors, the outputs,
\* the router and the mapper made, from the configuration as it is
Construct(config, renderer) ==
    /\ engine.state = "none"
    /\ LET errors == validate_config(config)
       IN  IF errors # <<>>
           THEN /\ engine' = [engine EXCEPT !.state = "failed",
                                            !.errors = errors,
                                            !.raised = "ValueError"]
                /\ UNCHANGED <<rules, smooth_alpha, smoothers, targets,
                               registry, last_params>>
           ELSE /\ engine' = [state |-> "built", errors |-> <<>>,
                              raised |-> "no",
                              created |-> {"sensors", "outputs", "router",
                                           "mapper"},
                              config |-> config,
                              sensors |-> config.sensors,
                              tick_rate |-> config.tick_rate,
                              renderer |-> renderer,
                              callbacks |-> 0, registered |-> <<>>,
                              frame_count |-> 0]
                /\ rules' = config.mappings
                /\ smooth_alpha' = DefaultAlpha
                /\ smoothers' = EmptyDict
                /\ targets' = config.outputs
                /\ registry' = Register(config.outputs, 1, EmptyDict)
                /\ last_params' = [i \in 1..Len(config.outputs) |-> EmptyDict]
    /\ UNCHANGED <<reading, outcome, ever_fired, applies, params, routed,
                   handed, history, frame_data, seen, call, sideVars>>

\* engine.on_frame(callback)
OnFrame ==
    /\ engine.state = "built"
    /\ engine.callbacks < MaxCallbacks
    /\ engine' = [engine EXCEPT !.callbacks = @ + 1,
                                !.registered = Append(@, engine.frame_count)]
    /\ UNCHANGED <<mapVars, routerVars, frame_data, seen, call, sideVars>>

\* what the loop body reads and writes, as a call of step or run finds it
EngineState ==
    [smoothers |-> smoothers, reading |-> reading, outcome |-> outcome,
     ever_fired |-> ever_fired, applies |-> applies,
     last_params |-> last_params, params |-> params, routed |-> routed,
     history |-> history, frame_count |-> engine.frame_count,
     frame_data |-> frame_data, rendered |-> seen.rendered,
     called |-> seen.called, events |-> seen.events, merged |-> seen.merged]

\* the engine once the loop body has run and left es, with tick_rate as
\* the call leaves it
Ticked(es, tick_rate) ==
    /\ smoothers' = es.smoothers
    /\ reading' = es.reading
    /\ outcome' = es.outcome
    /\ ever_fired' = es.ever_fired
    /\ applies' = es.applies
    /\ last_params' = es.last_params
    /\ params' = es.params
    /\ routed' = es.routed
    /\ handed' = [buckets |-> es.routed, shared |-> {}]
    /\ history' = es.history
    /\ frame_data' = es.frame_data
    /\ seen' = [rendered |-> es.rendered, called |-> es.called,
                events |-> es.events, merged |-> es.merged]
    /\ engine' = [engine EXCEPT !.frame_count = es.frame_count,
                                !.tick_rate = tick_rate]
    /\ UNCHANGED <<rules, smooth_alpha, targets, registry, call, sideVars>>

\* engine.step()
Step(row) ==
    /\ engine.state = "built"
    /\ engine.frame_count < MaxTicks
    /\ row \in ReadingRows(engine.sensors)
    /\ \E es \in {TickOnce(EngineState, row)} :
          Ticked([es EXCEPT !.events =
                     Append(@, [by |-> "caller", nr |-> 0,
                                object |-> es.frame_count,
                                data |-> es.frame_data])],
                 engine.tick_rate)

\* tick_rate arguments of run: None, or a rate
NoOverride == [given |-> FALSE, rate |-> 0]

RunTickRates == {NoOverride, [given |-> TRUE, rate |-> 0],
                 [given |-> TRUE, rate |-> 10]}

\* engine.run(duration_seconds, tick_rate), for each tick_rate argument:
\* the rate is overridden if given (1.0 / 0 raises ZeroDivisionError after
\* tick_rate is set, before the loop); the loop then runs as many passes as
\* the clock allows, here one for each row of rows
Run(rows) ==
    /\ engine.state = "built"
    /\ engine.frame_count + Len(rows) <= MaxTicks
    /\ \A n \in 1..Len(rows) : rows[n] \in ReadingRows(engine.sensors)
    /\ \E es \in {TickAll(EngineState, rows, 1)} :
          \E override \in RunTickRates :
             /\ (override.given /\ override.rate = 0) => rows = <<>>
             /\ Ticked(es, IF override.given THEN override.rate
                           ELSE engine.tick_rate)

EngineInit ==
    /\ NewEngine(<<>>, DefaultAlpha)
    /\ NewRouter(<<>>)
    /\ NoInstallation
    /\ call = NoCall
    /\ Idle

EngineNext ==
    \/ \E config \in Configs : \E renderer \in BOOLEAN :
          Construct(config, renderer)
    \/ OnFrame
    \/ \E row \in ReadingRows(engine.sensors) : Step(row)
    \/ \E n \in 0..MaxTicks :
          \E rows \in [1..n -> ReadingRows(engine.sensors)] : Run(rows)

SpecEngine == EngineInit /\ [][EngineNext]_vars

(***************************************************************************)
(* A transform function called on its own.                                 *)
(***************************************************************************)
\* raw values: below 0, the ends and the inside of [0, 1], next to 0.5,
\* above 1
TransformInputs ==
    {0 - Dec(1, 2), 0 - 1, 0, Dec(3, 10), Dec(1, 2) - 1, Dec(1, 2), Q, Q + 1,
     2 * Q}

\* output ranges <<min_out, max_out>>: plain, wide, inverted, across zero,
\* and with bounds of many digits
TransformRanges ==
    {<<0, Q>>, <<10 * Q, 20 * Q>>, <<Q, 0>>, <<0 - Q, Q>>,
     <<1 - 10 * Q, 10 * Q - 1>>, <<Dec(1, 4) + 51, 0 - Dec(1, 3)>>}

TransformInit ==
    /\ NewEngine(<<>>, DefaultAlpha)
    /\ NewRouter(<<>>)
    /\ NoInstallation
    /\ call = NoCall
    /\ Idle

\* TRANSFORMS[fn](value, min_out, max_out)
CallTransform(fn, value, min_out, max_out) ==
    /\ call' = [fn |-> fn, value |-> value, min_out |-> min_out,
                max_out |-> max_out,
                out |-> Transform(fn, value, min_out, max_out)]
    /\ UNCHANGED <<mapVars, routerVars, engineVars, sideVars>>

TransformNext ==
    \E fn \in TransformNames : \E value \in TransformInputs :
       \E range \in TransformRanges :
          CallTransform(fn, value, range[1], range[2])

SpecTransform == TransformInit /\ [][TransformNext]_vars

(***************************************************************************)
(* OscRenderer (src/renderers/osc.py).                                     *)
(***************************************************************************)
\* frame_data.get("params", {})
GetParams(data) == IF "params" \in DOMAIN data THEN data.params ELSE EmptyDict

\* params.items(): the keys of d one after another (a dict of the model
\* keeps no insertion order; the order taken is a fixed one)
RECURSIVE Items(_)
Items(d) ==
    IF DOMAIN d = {} THEN <<>>
    ELSE LET key == CHOOSE k \in DOMAIN d : TRUE
         IN  <<key>> \o Items([k \in DOMAIN d \ {key} |-> d[k]])

\* the messages of a frame, one (address, float(value)) for each parameter;
\* the values are floats already and float() returns them as they are
Messages(data) ==
    LET params_ == GetParams(data)
        keys == Items(params_)
    IN  [i \in 1..Len(keys) |->
            [address |-> OscAddress(keys[i]), value |-> params_[keys[i]]]]

\* buf[-n:] of a Python list
LastSlice(buf, n) ==
    LET from == IF n = 0 THEN 0
                ELSE IF n > 0 THEN (IF Len(buf) > n THEN Len(buf) - n ELSE 0)
                ELSE (IF 0 - n < Len(buf) THEN 0 - n ELSE Len(buf))
    IN  SubSeq(buf, from + 1, Len(buf))

\* _push counting only the messages the buffer keeps
PushCountingKept(o, message) ==
    LET appended == Append(o.buffer, message)
        evicts == Len(appended) > o.buffer_size
    IN  [o EXCEPT !.buffer = IF evicts THEN LastSlice(appended, o.buffer_size)
                             ELSE appended,
                  !.messages_total = IF evicts THEN @ ELSE @ + 1,
                  !.pushed = Append(@, message)]

\* _push(message)
Push(o, message) ==
    LET appended == Append(o.buffer, message)
    IN  [o EXCEPT !.buffer = IF Len(appended) > o.buffer_size
                             THEN LastSlice(appended, o.buffer_size)
                             ELSE appended,
                  !.messages_total = @ + 1,
                  !.pushed = Append(@, message)]

\* the loop of render from message i on
RECURSIVE PushAll(_, _, _)
PushAll(o, messages, i) ==
    IF i > Len(messages) THEN o
    ELSE CHOOSE end \in {PushAll(next, messages, i + 1) :
                            next \in {Push(o, messages[i])}} : TRUE

\* the frames the renderer is given: one without "params", and frames of
\* one, two and three parameters
OscFrames ==
    {[frame |-> 0],
     [frame |-> 0, params |-> Put(EmptyDict, v_x, Dec(1, 2))],
     [frame |-> 1, params |-> Put(Put(EmptyDict, v_x, Dec(3, 4)), u_x, Dec(1, 4))],
     [frame |-> 2, params |-> Put(Put(Put(EmptyDict, v_x, Dec(1, 2)),
                                      <<"n">>, Dec(1, 4)), s_x, Dec(1, 4))]}

\* OscRenderer(buffer_size=buffer_size)
OscConstruct(buffer_size) ==
    /\ osc.state = "none"
    /\ osc' = [NoOsc EXCEPT !.state = "made", !.buffer_size = buffer_size,
                            !.last = "__init__"]
    /\ UNCHANGED <<mapVars, routerVars, engineVars, call, loop, driver>>

\* renderer.render(data)
Render(data) ==
    /\ osc.state = "made"
    /\ osc.messages_total + Cardinality(DOMAIN GetParams(data)) <= MaxMessages
    /\ osc' = [PushAll(osc, Messages(data), 1) EXCEPT
                  !.given = @ + Cardinality(DOMAIN GetParams(data)),
                  !.last = "render", !.returned = <<>>]
    /\ UNCHANGED <<mapVars, routerVars, engineVars, call, loop, driver>>

\* renderer.get_buffer()
GetBuffer ==
    /\ osc.state = "made"
    /\ osc' = [osc EXCEPT !.last = "get_buffer", !.returned = osc.buffer]
    /\ UNCHANGED <<mapVars, routerVars, engineVars, call, loop, driver>>

\* renderer.clear_buffer()
ClearBuffer ==
    /\ osc.state = "made"
    /\ osc' = [osc EXCEPT !.buffer = <<>>, !.pushed = <<>>,
                          !.last = "clear_buffer", !.returned = <<>>]
    /\ UNCHANGED <<mapVars, routerVars, engineVars, call, loop, driver>>

\* renderer.format_bundle(data)
FormatBundle(data) ==
    /\ osc.state = "made"
    /\ osc' = [osc EXCEPT !.last = "format_bundle",
                          !.returned = Messages(data)]
    /\ UNCHANGED <<mapVars, routerVars, engineVars, call, loop, driver>>

OscInit ==
    /\ NewEngine(<<>>, DefaultAlpha)
    /\ NewRouter(<<>>)
    /\ NoInstallation
    /\ call = NoCall
    /\ Idle

OscNext ==
    \/ \E buffer_size \in 0..MaxBufferSize : OscConstruct(buffer_size)
    \/ \E data \in OscFrames : Render(data)
    \/ GetBuffer
    \/ ClearBuffer
    \/ \E data \in OscFrames : FormatBundle(data)

SpecOsc == OscInit /\ [][OscNext]_vars

(***************************************************************************)
(* InstallationEngine.run under the monotonic clock (src/src/engine.py).   *)
(* The clock counts units of 1/UnitsPerSecond seconds and may advance      *)
(* between any two statements of the loop; what a pass of the loop does to *)
(* the mapper and the router is in Step and Run above and is left out      *)
(* here.                                                                   *)
(***************************************************************************)
UnitsPerSecond == 4

\* 1.0 / tick_rate, in units of the clock
TickInterval(tick_rate) == UnitsPerSecond \div tick_rate

\* the tick rates of the model divide UnitsPerSecond
LoopTickRates == {1, 4}

\* duration_seconds arguments of run, in units of the clock
Durations == {0 - 1, 0, 2}

\* an engine as __init__ leaves it, with the clock at 0
NewLoop(renderer, tick_rate) ==
    [pc |-> "ready", calls |-> 0, runs |-> 0, clock |-> 0,
     renderer |-> renderer, tick_rate |-> tick_rate,
     tick_interval |-> TickInterval(tick_rate),
     frame_count |-> 0, elapsed_time |-> 0, rendered |-> 0,
     duration |-> 0, start |-> 0, now |-> 0, next_tick |-> 0,
     frames |-> 0, renders |-> 0, first_wait |-> 0 - 1, late |-> FALSE]

\* frame_count / elapsed_time as a float
Fps(frame_count, elapsed_time) == (frame_count * Q) \div elapsed_time

\* engine.average_fps
average_fps(l) ==
    IF l.elapsed_time <= 0 THEN 0 ELSE Fps(l.frame_count, l.elapsed_time)

\* the clock advances by one unit, wherever the program is
Advance ==
    /\ loop.pc # "idle"
    /\ loop.clock < MaxClock
    /\ loop' = [loop EXCEPT !.clock = @ + 1]
    /\ UNCHANGED <<mapVars, routerVars, engineVars, call, osc, driver>>

\* engine.step(), between calls of run
StepOutsideRun ==
    /\ loop.pc \in {"ready", "returned"}
    /\ loop.calls < MaxCalls
    /\ loop' = [loop EXCEPT !.calls = @ + 1,
                            !.frame_count = @ + 1,
                            !.rendered = IF loop.renderer THEN @ + 1 ELSE @]
    /\ UNCHANGED <<mapVars, routerVars, engineVars, call, osc, driver>>

\* engine.run(duration_seconds, tick_rate) up to the loop: the override,
\* start = time.monotonic(), next_tick = start
RunCalled(duration_seconds, override) ==
    /\ loop.pc \in {"ready", "returned"}
    /\ loop.calls < MaxCalls
    /\ override.given => override.rate \in LoopTickRates
    /\ loop' = [loop EXCEPT
          !.pc = "check", !.calls = @ + 1, !.runs = @ + 1,
          !.tick_rate = IF override.given THEN override.rate ELSE @,
          !.tick_interval = IF override.given THEN TickInterval(override.rate)
                            ELSE @,
          !.duration = duration_seconds,
          !.start = loop.clock, !.next_tick = loop.clock,
          !.frames = 0, !.renders = 0, !.first_wait = 0 - 1, !.late = FALSE]
    /\ UNCHANGED <<mapVars, routerVars, engineVars, call, osc, driver>>

\* the check of the deadline with > for >=
CheckDeadlineStrict ==
    /\ loop.pc = "check"
    /\ loop' = [loop EXCEPT
          !.now = loop.clock,
          !.first_wait = IF loop.first_wait < 0 THEN loop.clock - loop.start
                         ELSE @,
          !.pc = IF loop.clock - loop.start > loop.duration THEN "end"
                 ELSE "sleep"]
    /\ UNCHANGED <<mapVars, routerVars, engineVars, call, osc, driver>>

\* now = time.monotonic(); if now - start >= duration_seconds: break
CheckDeadline ==
    /\ loop.pc = "check"
    /\ loop' = [loop EXCEPT
          !.now = loop.clock,
          !.first_wait = IF loop.first_wait < 0 THEN loop.clock - loop.start
                         ELSE @,
          !.pc = IF loop.clock - loop.start >= loop.duration THEN "end"
                 ELSE "sleep"]
    /\ UNCHANGED <<mapVars, routerVars, engineVars, call, osc, driver>>

\* sleep_time = next_tick - now; time.sleep(sleep_time) if it is positive:
\* the clock is at next_tick at least when sleep returns.  The pass begins
\* no earlier than at the later of now and next_tick; late records that
\* duration_seconds have elapsed by then.
SleepUntilNextTick ==
    /\ loop.pc = "sleep"
    /\ loop.next_tick <= MaxClock
    /\ LET sleep_time == loop.next_tick - loop.now
           begins == IF sleep_time > 0 THEN loop.next_tick ELSE loop.now
       IN  loop' = [loop EXCEPT
              !.clock = IF sleep_time > 0 /\ loop.clock < loop.next_tick
                        THEN loop.next_tick ELSE @,
              !.late = @ \/ (begins - loop.start >= loop.duration),
              !.pc = "tick"]
    /\ UNCHANGED <<mapVars, routerVars, engineVars, call, osc, driver>>

\* frame_start, _tick(), frame_count += 1, render, callbacks
TickInLoop ==
    /\ loop.pc = "tick"
    /\ loop' = [loop EXCEPT
          !.frame_count = @ + 1, !.frames = @ + 1,
          !.rendered = IF loop.renderer THEN @ + 1 ELSE @,
          !.renders = IF loop.renderer THEN @ + 1 ELSE @,
          !.pc = "schedule"]
    /\ UNCHANGED <<mapVars, routerVars, engineVars, call, osc, driver>>

\* next_tick += tick_interval, and no earlier than now
ScheduleNextTick ==
    /\ loop.pc = "schedule"
    /\ loop' = [loop EXCEPT
          !.next_tick = IF @ + loop.tick_interval < loop.clock THEN loop.clock
                        ELSE @ + loop.tick_interval,
          !.pc = "check"]
    /\ UNCHANGED <<mapVars, routerVars, engineVars, call, osc, driver>>

\* elapsed_time = time.monotonic() - start, and run returns
RunReturns ==
    /\ loop.pc = "end"
    /\ loop' = [loop EXCEPT !.elapsed_time = loop.clock - loop.start,
                            !.pc = "returned"]
    /\ UNCHANGED <<mapVars, routerVars, engineVars, call, osc, driver>>

LoopInit ==
    /\ NewEngine(<<>>, DefaultAlpha)
    /\ NewRouter(<<>>)
    /\ NoInstallation
    /\ call = NoCall
    /\ osc = NoOsc
    /\ driver = NoDriver
    /\ \E renderer \in BOOLEAN : \E tick_rate \in LoopTickRates :
          loop = NewLoop(renderer, tick_rate)

LoopNext ==
    \/ Advance
    \/ StepOutsideRun
    \/ \E duration_seconds \in Durations :
          \E override \in {NoOverride} \cup
                          {[given |-> TRUE, rate |-> r] : r \in LoopTickRates} :
             RunCalled(duration_seconds, override)
    \/ CheckDeadline
    \/ SleepUntilNextTick
    \/ TickInLoop
    \/ ScheduleNextTick
    \/ RunReturns

SpecLoop == LoopInit /\ [][LoopNext]_vars

(***************************************************************************)
(* The simulation driver (src/examples/run_simulation.py, main) with the   *)
(* TerminalRenderer's cursor (src/renderers/terminal.py).                  *)
(***************************************************************************)
\* main after TerminalRenderer(...) and InstallationEngine(...): about to
\* enter the try block
NewDriver ==
    [pc |-> "try", at |-> "check", frames |-> 0, first_frame |-> TRUE,
     cursor |-> "shown", pending |-> "none"]

\* TerminalRenderer.render up to the write of HIDE_CURSOR
HideOnFirstFrame(d) ==
    IF d.first_frame THEN [d EXCEPT !.cursor = "hidden", !.first_frame = FALSE]
    ELSE d

\* the try block is left at the point the driver is at, with the exception
\* pending (or none): control goes to the except and finally clauses
Leave(d, exception) == [d EXCEPT !.pc = "finally", !.pending = exception]

\* engine.run(duration_seconds=duration) is entered
DriverRuns ==
    /\ driver.pc = "try"
    /\ driver' = [driver EXCEPT !.pc = "run"]
    /\ UNCHANGED <<mapVars, routerVars, engineVars, call, osc, loop>>

\* the check of the loop finds time left, and the pass goes on to _tick
DriverGoesOn ==
    /\ driver.pc = "run" /\ driver.at = "check"
    /\ driver.frames < MaxDriverFrames
    /\ driver' = [driver EXCEPT !.at = "tick"]
    /\ UNCHANGED <<mapVars, routerVars, engineVars, call, osc, loop>>

\* the check of the loop finds the duration elapsed: run returns
DriverRunReturns ==
    /\ driver.pc = "run" /\ driver.at = "check"
    /\ driver' = Leave(driver, "none")
    /\ UNCHANGED <<mapVars, routerVars, engineVars, call, osc, loop>>

\* _tick returns and frame_count is incremented
DriverTicks ==
    /\ driver.pc = "run" /\ driver.at = "tick"
    /\ driver' = [driver EXCEPT !.at = "render", !.frames = @ + 1]
    /\ UNCHANGED <<mapVars, routerVars, engineVars, call, osc, loop>>

\* renderer.render(frame_data) returns
DriverRenders ==
    /\ driver.pc = "run" /\ driver.at = "render"
    /\ driver' = [HideOnFirstFrame(driver) EXCEPT !.at = "callbacks"]
    /\ UNCHANGED <<mapVars, routerVars, engineVars, call, osc, loop>>

\* the frame callbacks return and the pass ends
DriverCallsBack ==
    /\ driver.pc = "run" /\ driver.at = "callbacks"
    /\ driver' = [driver EXCEPT !.at = "check"]
    /\ UNCHANGED <<mapVars, routerVars, engineVars, call, osc, loop>>

\* an exception leaves run: KeyboardInterrupt at any point of the loop, or
\* an exception raised by _tick, by render or by a callback.  In render it
\* is raised before or after the cursor was hidden.
DriverRaises(exception, hidden) ==
    /\ driver.pc = "run"
    /\ exception = "Exception" => driver.at \in {"tick", "render", "callbacks"}
    /\ hidden => driver.at = "render"
    /\ driver' = Leave(IF hidden THEN HideOnFirstFrame(driver) ELSE driver,
                       exception)
    /\ UNCHANGED <<mapVars, routerVars, engineVars, call, osc, loop>>

\* cleanup skipped when an exception is pending
DriverCleansUpOnReturn ==
    /\ driver.pc = "finally"
    /\ driver' = [driver EXCEPT
          !.cursor = IF driver.pending = "none" THEN "shown" ELSE @,
          !.pc = IF driver.pending = "Exception" THEN "raised" ELSE "summary"]
    /\ UNCHANGED <<mapVars, routerVars, engineVars, call, osc, loop>>

\* except KeyboardInterrupt: pass; finally: renderer.cleanup().  Any other
\* exception leaves main after the finally clause.
DriverCleansUp ==
    /\ driver.pc = "finally"
    /\ driver' = [driver EXCEPT
          !.cursor = "shown",
          !.pc = IF driver.pending = "Exception" THEN "raised" ELSE "summary"]
    /\ UNCHANGED <<mapVars, routerVars, engineVars, call, osc, loop>>

DriverInit ==
    /\ NewEngine(<<>>, DefaultAlpha)
    /\ NewRouter(<<>>)
    /\ NoInstallation
    /\ call = NoCall
    /\ osc = NoOsc
    /\ loop = NoLoop
    /\ driver = NewDriver

\* the steps the program takes by itself
DriverProgram ==
    \/ DriverRuns
    \/ DriverGoesOn
    \/ DriverRunReturns
    \/ DriverTicks
    \/ DriverRenders
    \/ DriverCallsBack
    \/ DriverCleansUp

DriverNext ==
    \/ DriverProgram
    \/ \E exception \in {"KeyboardInterrupt", "Exception"} :
          \E hidden \in BOOLEAN : DriverRaises(exception, hidden)

\* the interpreter keeps executing the program; interrupts and exceptions
\* need not happen
SpecDriver == DriverInit /\ [][DriverNext]_vars /\ WF_vars(DriverProgram)

(***************************************************************************)
(* What the claims speak of.                                               *)
(***************************************************************************)
\* does s hold a dot
HasDot(s) == \E n \in 1..Len(s) : s[n] = Dot

\* the text before the first dot of s (all of s when it has none)
Category(s) == IF HasDot(s) THEN SubSeq(s, 1, (CHOOSE n \in 1..Len(s) :
                                     s[n] = Dot /\ \A m \in 1..(n - 1) : s[m] # Dot) - 1)
               ELSE s

\* the text after the last dot of s
LastSegment(s) ==
    LET p == CHOOSE n \in 1..Len(s) : s[n] = Dot /\ \A m \in (n + 1)..Len(s) : s[m] # Dot
    IN  SubSeq(s, p + 1, Len(s))

\* the rule's source field is in the reading's data and float() accepts it
Resolvable(rule, r) ==
    /\ HasDot(rule.source_param)
    /\ LastSegment(rule.source_param) \in DOMAIN r.data
    /\ r.data[LastSegment(rule.source_param)].k \in {"float", "str"}

\* the rule's source field is absent, None, or nothing float() converts
Unconvertible(rule, r) ==
    /\ HasDot(rule.source_param)
    /\ \/ LastSegment(rule.source_param) \notin DOMAIN r.data
       \/ r.data[LastSegment(rule.source_param)].k \notin {"float", "str"}

\* the rules that stored a value during the last apply
FiredRules == {outcome.fired[n].rule : n \in 1..Len(outcome.fired)}

\* the entries of the last apply's record for target key k
FiredFor(k) == {n \in 1..Len(outcome.fired) :
                    rules[outcome.fired[n].rule].target_param = k}

\* the smoother calls of the last apply made for key k
UpdatesOf(k) == {n \in 1..Len(outcome.updates) : outcome.updates[n].key = k}

SetMax(S) == CHOOSE x \in S : \A y \in S : y <= x

(***************************************************************************)
(* C1: a rule contributes to an apply result only if the text before the  *)
(* first dot of its source_param equals the reading's sensor_type; every  *)
(* key of a result is the target_param of a rule of the reading's         *)
(* category, in every apply of every run.                                  *)
(***************************************************************************)
C1_FiresOnlyOnOwnCategory ==
    /\ \A i \in FiredRules :
          Category(rules[i].source_param) = reading.sensor_type
    /\ \A k \in DOMAIN outcome.results :
          \E i \in 1..Len(rules) :
             /\ rules[i].target_param = k
             /\ Category(rules[i].source_param) = reading.sensor_type

\* an apply in which one rule fired and another, whose field the reading
\* holds, stayed out because its category is not the reading's
C1_Witness ==
    /\ outcome.status = "returned"
    /\ \E i \in FiredRules : \E j \in 1..Len(rules) :
          /\ j \notin FiredRules
          /\ Category(rules[j].source_param) # reading.sensor_type
          /\ Resolvable(rules[j], reading)

(***************************************************************************)
(* C2: apply raises no exception and leaves the rule out when the rule's   *)
(* source field is absent, None or not convertible to a float; the other   *)
(* rules of the call are still evaluated and reported.                     *)
(***************************************************************************)
C2_UnconvertibleSkippedSilently ==
    outcome.status # "none" =>
       /\ outcome.status = "returned"
       /\ \A i \in 1..Len(rules) :
             Unconvertible(rules[i], reading) => i \notin FiredRules
       /\ \A i \in 1..Len(rules) :
             (/\ Category(rules[i].source_param) = reading.sensor_type
              /\ Resolvable(rules[i], reading)) => i \in FiredRules

(***************************************************************************)
(* C3: when several rules with the same target_param fire in one apply,    *)
(* the returned mapping has one entry for it, holding the output of the    *)
(* rule latest in declaration order among those that fired; the keys of    *)
(* the mapping are the targets of the rules that fired.                    *)
(***************************************************************************)
C3_LastWriteWins ==
    outcome.status = "returned" =>
       /\ DOMAIN outcome.results = {rules[i].target_param : i \in FiredRules}
       /\ \A n, m \in 1..Len(outcome.fired) :
             n < m => outcome.fired[n].rule < outcome.fired[m].rule
       /\ \A k \in DOMAIN outcome.results :
             outcome.results[k] = outcome.fired[SetMax(FiredFor(k))].out
       /\ \A n \in 1..Len(outcome.fired) :
             LET rule == rules[outcome.fired[n].rule]
             IN  /\ outcome.fired[n].raw =
                       reading.data[LastSegment(rule.source_param)].v
                 /\ rule.transform # "smooth" =>
                       outcome.fired[n].out =
                          Round6(Transform(rule.transform, outcome.fired[n].raw,
                                           rule.min_out, rule.max_out))

\* two rules of one target fired in one apply, with different outputs
C3_Witness ==
    /\ outcome.status = "returned"
    /\ \E n, m \in 1..Len(outcome.fired) :
          /\ n < m
          /\ rules[outcome.fired[n].rule].target_param =
                rules[outcome.fired[m].rule].target_param
          /\ outcome.fired[n].out # outcome.fired[m].out

(***************************************************************************)
(* C4, as claimed: the first apply in which a smooth rule resolves a raw   *)
(* value r sets the smoother state of its target_param to r, every later   *)
(* resolving apply moves the state to state + alpha*(r - state), and the   *)
(* reported value is linear_map of the new state (read here as rounded to  *)
(* the 6 decimals every reported value has).  Stated for the applies that  *)
(* call no smoother twice, so that it does not rest on the case of C5.     *)
(***************************************************************************)
C4_FirstResolveOfRuleSetsState ==
    (\A k \in DOMAIN smoothers : Cardinality(UpdatesOf(k)) <= 1) =>
    \A n \in 1..Len(outcome.fired) :
       LET i == outcome.fired[n].rule
           k == rules[i].target_param
           r == outcome.fired[n].raw
       IN  rules[i].transform = "smooth" =>
              /\ i \notin outcome.seen => smoothers[k].value.v = r
              /\ i \in outcome.seen =>
                    smoothers[k].value.v =
                       FAdd(outcome.before[k].value.v,
                            FMul(smooth_alpha,
                                 FSub(r, outcome.before[k].value.v)))
              /\ outcome.fired[n].out =
                    Round6(linear_map(smoothers[k].value.v,
                                      rules[i].min_out, rules[i].max_out))

\* the smoother state that the n-th smoother call of the last apply found:
\* that of the previous call for the same key in this apply, else the state
\* the apply started with; "None" when the key had no smoother yet
StateBefore(n) ==
    LET k == outcome.updates[n].key
        earlier == {m \in UpdatesOf(k) : m < n}
    IN  IF earlier # {}
        THEN [tag |-> "float", v |-> outcome.updates[SetMax(earlier)].state]
        ELSE IF k \in DOMAIN outcome.before THEN outcome.before[k].value
        ELSE NoValue

(***************************************************************************)
(* C4, amended: each time a smooth rule resolves a raw value r, the        *)
(* smoother kept under its target_param is set to r when that key has no   *)
(* smoother yet, and else moved to state + alpha*(r - state); the rule     *)
(* reports round(linear_map(new state, min_out, max_out), 6); the state    *)
(* left by the last such call is the one the next apply finds.             *)
(***************************************************************************)
C4_SmootherStepPerResolvingRule ==
    /\ \A n \in 1..Len(outcome.updates) :
          LET u == outcome.updates[n]
              rule == rules[u.rule]
              prev == StateBefore(n)
          IN  /\ rule.transform = "smooth"
              /\ u.key = rule.target_param
              /\ u.raw = reading.data[LastSegment(rule.source_param)].v
              /\ prev.tag = "None" => u.state = u.raw
              /\ prev.tag # "None" =>
                    u.state = FAdd(prev.v, FMul(smooth_alpha, FSub(u.raw, prev.v)))
              /\ \E m \in 1..Len(outcome.fired) :
                    /\ outcome.fired[m].rule = u.rule
                    /\ outcome.fired[m].out =
                          Round6(linear_map(u.state, rule.min_out, rule.max_out))
    /\ \A i \in FiredRules :
          rules[i].transform = "smooth" =>
             Cardinality({n \in 1..Len(outcome.updates) :
                             outcome.updates[n].rule = i}) = 1
    /\ \A k \in DOMAIN smoothers :
          smoothers[k].value =
             IF UpdatesOf(k) # {}
             THEN [tag |-> "float",
                   v |-> outcome.updates[SetMax(UpdatesOf(k))].state]
             ELSE outcome.before[k].value

\* a smoother created by an earlier apply was moved by the last one
C4_Witness ==
    /\ applies >= 2
    /\ \E k \in DOMAIN outcome.before :
          /\ UpdatesOf(k) # {}
          /\ smoothers[k].value.v # outcome.before[k].value.v
          /\ smoothers[k].value.v # outcome.updates[SetMax(UpdatesOf(k))].raw

(***************************************************************************)
(* C5: the smoother state kept for a target_param is mutated at most once  *)
(* during a single apply call.                                             *)
(***************************************************************************)
C5_OneSmootherUpdatePerApply ==
    \A k \in DOMAIN smoothers : Cardinality(UpdatesOf(k)) <= 1

(***************************************************************************)
(* C6: an apply leaves the smoother keys and states alone for every rule   *)
(* that does not fire and for every rule that is not smooth: a smoother    *)
(* is created or changed only under the target_param of a smooth rule of   *)
(* the reading's category whose source field resolves; none is dropped.    *)
(***************************************************************************)
C6_SmoothersChangeOnlyForFiringSmoothRule ==
    /\ DOMAIN outcome.before \subseteq DOMAIN smoothers
    /\ \A k \in DOMAIN outcome.before :
          smoothers[k].alpha = outcome.before[k].alpha
    /\ \A k \in DOMAIN smoothers :
          (k \notin DOMAIN outcome.before \/ smoothers[k] # outcome.before[k]) =>
             \E i \in 1..Len(rules) :
                /\ rules[i].transform = "smooth"
                /\ rules[i].target_param = k
                /\ Category(rules[i].source_param) = reading.sensor_type
                /\ Resolvable(rules[i], reading)

\* an apply in which a smooth rule created or moved its smoother while the
\* smoother of another smooth rule, which did not fire, kept its state
C6_Witness ==
    /\ outcome.status = "returned"
    /\ \E k \in DOMAIN smoothers :
          k \notin DOMAIN outcome.before \/ smoothers[k] # outcome.before[k]
    /\ \E j \in 1..Len(rules) :
          /\ rules[j].transform = "smooth"
          /\ j \notin FiredRules
          /\ rules[j].target_param \in DOMAIN outcome.before
          /\ smoothers[rules[j].target_param] =
                outcome.before[rules[j].target_param]

\* the constant raw input of SpecConverge, the smoother state now and
\* before the last apply, and the value apply reports for a raw value x
\* that goes through linear_map unsmoothed
InputValue == reading.data[<<"a">>].v

StateNow == smoothers[v_x].value.v

StatePrev == outcome.before[v_x].value.v

ReportedFor(x) == Round6(linear_map(x, rules[1].min_out, rules[1].max_out))

KnownTransforms == TransformNames \cup {"smooth"}

\* the rule list with every unknown transform name replaced by "linear"
Linearised(rs) ==
    [i \in DOMAIN rs |->
        IF rs[i].transform \in KnownTransforms THEN rs[i]
        ELSE [rs[i] EXCEPT !.transform = "linear"]]

(***************************************************************************)
(* C8: a rule whose transform name is none of linear, exponential,         *)
(* threshold, invert, smooth fires exactly like the same rule with         *)
(* "linear": for every reading both give the same apply result, no         *)
(* exception is raised, and no smoother is created.                        *)
(***************************************************************************)
C8_UnknownTransformLikeLinear ==
    outcome.status # "none" =>
       LET lin == ApplyRun(Linearised(rules), outcome.before, smooth_alpha,
                           reading)
       IN  /\ \A i \in 1..Len(rules) :
                 rules[i].transform \notin KnownTransforms =>
                    outcome.raisedAt # i
           /\ (outcome.status = "returned") = (lin.raised = "no")
           /\ outcome.status = "returned" => outcome.results = lin.results
           /\ smoothers = lin.smoothers
           /\ \A k \in DOMAIN smoothers :
                 \E i \in 1..Len(rules) :
                    rules[i].target_param = k /\ rules[i].transform = "smooth"

(***************************************************************************)
(* C9, as claimed (its first half): a rule whose source_param or whose     *)
(* target_param holds no dot never contributes an entry to an apply        *)
(* result.                                                                 *)
(***************************************************************************)
C9_DotlessRuleNeverFires ==
    \A i \in 1..Len(rules) :
       (~HasDot(rules[i].source_param) \/ ~HasDot(rules[i].target_param)) =>
          i \notin FiredRules

(***************************************************************************)
(* C9, amended: a rule whose source_param holds no dot never contributes   *)
(* an entry and evaluating it raises no error; a rule whose target_param   *)
(* holds no dot (and whose source_param holds one) fires like any other    *)
(* rule, and a returned result has its value under the dot-less key.       *)
(***************************************************************************)
C9_DotlessSourceNeverFires ==
    /\ \A i \in 1..Len(rules) :
          ~HasDot(rules[i].source_param) =>
             i \notin FiredRules /\ outcome.raisedAt # i
    /\ \A i \in 1..Len(rules) :
          (/\ outcome.status = "returned"
           /\ ~HasDot(rules[i].target_param)
           /\ Category(rules[i].source_param) = reading.sensor_type
           /\ Resolvable(rules[i], reading)) =>
             /\ i \in FiredRules
             /\ rules[i].target_param \in DOMAIN outcome.results

\* an apply over a rule whose source_param is the reading's very
\* sensor_type, without a dot, while the data holds a field of that name:
\* the rule stayed out, and a rule with a dot-less target fired
C9_Witness ==
    /\ outcome.status = "returned"
    /\ \E i \in 1..Len(rules) :
          /\ rules[i].source_param = reading.sensor_type
          /\ rules[i].source_param \in DOMAIN reading.data
          /\ reading.data[rules[i].source_param].k = "float"
          /\ i \notin FiredRules
    /\ \E j \in FiredRules : ~HasDot(rules[j].target_param)

\* the text after the first dot of s
AfterFirstDot(s) ==
    LET p == CHOOSE n \in 1..Len(s) : s[n] = Dot /\ \A m \in 1..(n - 1) : s[m] # Dot
    IN  SubSeq(s, p + 1, Len(s))

(***************************************************************************)
(* C10: route(params) returns exactly this mapping: every key of params    *)
(* with a dot whose text before the first dot is a registered category     *)
(* has its value under result[prefix][rest of the key]; keys without a dot *)
(* and keys of an unregistered prefix appear nowhere; no category of the   *)
(* result is empty.                                                        *)
(***************************************************************************)
C10_RouteBucketsByFirstDot ==
    /\ \A k \in DOMAIN params :
          (HasDot(k) /\ Category(k) \in DOMAIN registry) =>
             /\ Category(k) \in DOMAIN routed
             /\ AfterFirstDot(k) \in DOMAIN routed[Category(k)]
             /\ routed[Category(k)][AfterFirstDot(k)] = params[k]
    /\ \A c \in DOMAIN routed :
          /\ c \in DOMAIN registry
          /\ ~HasDot(c)
          /\ DOMAIN routed[c] # {}
          /\ \A n \in DOMAIN routed[c] :
                /\ (c \o <<Dot>> \o n) \in DOMAIN params
                /\ routed[c][n] = params[c \o <<Dot>> \o n]

\* a route call whose params held a registered key of two dots, a key
\* without a dot and a key of an unregistered prefix
C10_Witness ==
    /\ \E k \in DOMAIN params :
          /\ HasDot(k)
          /\ Category(k) \in DOMAIN registry
          /\ HasDot(AfterFirstDot(k))
    /\ \E k \in DOMAIN params : ~HasDot(k)
    /\ \E k \in DOMAIN params : HasDot(k) /\ Category(k) \notin DOMAIN registry
    /\ Cardinality(DOMAIN routed) = 1

\* the bucket of category c in the flat mapping p: the keys of p that start
\* with c and a dot, without that prefix
BucketOf(p, c) ==
    LET keys == {k \in DOMAIN p : HasDot(k) /\ Category(k) = c}
    IN  [n \in {AfterFirstDot(k) : k \in keys} |-> p[c \o <<Dot>> \o n]]

(***************************************************************************)
(* C11: the last_params of each registered target is exactly the bucket    *)
(* of the most recent route call that held a key of its category: after a  *)
(* call that holds such a key it is that call's bucket and nothing else,   *)
(* a call that holds none leaves it as it was, and a write into the        *)
(* returned bucket does not reach it.                                      *)
(***************************************************************************)
C11_LastParamsIsLatestBucket ==
    /\ [](\A c \in DOMAIN registry :
             BucketOf(params, c) # EmptyDict =>
                last_params[registry[c]] = BucketOf(params, c))
    /\ [][\A c \in DOMAIN registry :
             BucketOf(params', c) = EmptyDict =>
                last_params'[registry[c]] = last_params[registry[c]]]_vars

\* after two route calls or more the caller wrote into a returned bucket,
\* and the target of that category still holds what route delivered
C11_Witness ==
    /\ history.calls = 2
    /\ \E c \in DOMAIN routed :
          /\ handed.buckets[c] # routed[c]
          /\ last_params[registry[c]] = routed[c]
          /\ Cardinality(DOMAIN routed[c]) = 1

(***************************************************************************)
(* C12: a route call whose params hold no key of a target's category calls *)
(* no send on that target and leaves its last_params unchanged; route({})  *)
(* changes no target.                                                      *)
(***************************************************************************)
C12_NoKeyNoSend ==
    /\ [](\A i \in 1..Len(targets) :
             BucketOf(params, targets[i]) = EmptyDict => i \notin history.sent)
    /\ [][/\ \A i \in 1..Len(targets) :
                BucketOf(params', targets[i]) = EmptyDict =>
                   last_params'[i] = last_params[i]
          /\ (params' = EmptyDict) => (last_params' = last_params)]_vars

\* a target keeps the values of an earlier call through a later call that
\* held keys, none of them of its category
C12_Witness ==
    /\ history.calls = 2
    /\ params # EmptyDict
    /\ routed # EmptyDict
    /\ \E i \in 1..Len(targets) :
          /\ last_params[i] # EmptyDict
          /\ BucketOf(params, targets[i]) = EmptyDict
          /\ i \notin history.sent

(***************************************************************************)
(* C13: a route call with the params of the call before it returns the     *)
(* same buckets and leaves every target's last_params as that call left    *)
(* it.                                                                      *)
(***************************************************************************)
C13_RouteIdempotent ==
    [][history'.repeated => (routed' = routed /\ last_params' = last_params)]_vars

\* the same non-empty params were routed twice in a row and reached a target
C13_Witness ==
    /\ history.repeated
    /\ routed # EmptyDict
    /\ \E c \in DOMAIN routed : last_params[registry[c]] = routed[c]
    /\ \E k \in DOMAIN params : ~HasDot(k) \/ Category(k) \notin DOMAIN registry

(***************************************************************************)
(* C14: of two targets of one target_type only the later is registered:    *)
(* the category's bucket goes to the last target of that type, and an      *)
(* earlier one is never sent to and keeps the empty last_params it was     *)
(* constructed with.                                                       *)
(***************************************************************************)
C14_LaterTargetReplacesEarlier ==
    /\ \A i, j \in 1..Len(targets) :
          (i < j /\ targets[i] = targets[j]) =>
             /\ registry[targets[i]] # i
             /\ i \notin history.sent
             /\ last_params[i] = EmptyDict
    /\ \A c \in DOMAIN routed :
          /\ targets[registry[c]] = c
          /\ \A i \in 1..Len(targets) : targets[i] = c => i <= registry[c]
          /\ registry[c] \in history.sent
          /\ last_params[registry[c]] = routed[c]

\* two targets of one type, and a route call delivered to the later one
C14_Witness ==
    /\ \E i, j \in 1..Len(targets) :
          /\ i < j
          /\ targets[i] = targets[j]
          /\ last_params[j] # EmptyDict
          /\ last_params[i] = EmptyDict
          /\ j \in history.sent
    /\ history.calls = 2

(***************************************************************************)
(* C17, as claimed: a threshold rule reports exactly max_out when its raw  *)
(* value is at least 0.5 and exactly min_out when it is below.             *)
(***************************************************************************)
C17_ThresholdReportsBoundExactly ==
    \A n \in 1..Len(outcome.fired) :
       LET rule == rules[outcome.fired[n].rule]
       IN  rule.transform = "threshold" =>
              outcome.fired[n].out =
                 IF outcome.fired[n].raw >= Dec(1, 2) THEN rule.max_out
                 ELSE rule.min_out

(***************************************************************************)
(* C17, amended: a threshold rule reports max_out rounded to 6 decimals    *)
(* when its raw value is at least 0.5 (0.5 itself and values above 1       *)
(* included) and min_out rounded to 6 decimals when it is below (negative  *)
(* values included), and nothing else; the last such rule for a key is     *)
(* what the result holds.                                                  *)
(***************************************************************************)
C17_ThresholdReportsRoundedBound ==
    \A n \in 1..Len(outcome.fired) :
       LET rule == rules[outcome.fired[n].rule]
           bound == IF outcome.fired[n].raw >= Dec(1, 2) THEN rule.max_out
                    ELSE rule.min_out
       IN  rule.transform = "threshold" =>
              /\ outcome.fired[n].out = Round6(bound)
              /\ (outcome.status = "returned"
                    /\ n = SetMax(FiredFor(rule.target_param))) =>
                    outcome.results[rule.target_param] = Round6(bound)

\* a threshold rule fired on a raw value of exactly 0.5 and reported max_out
C17_Witness ==
    /\ outcome.status = "returned"
    /\ \E n \in 1..Len(outcome.fired) :
          /\ rules[outcome.fired[n].rule].transform = "threshold"
          /\ outcome.fired[n].raw = Dec(1, 2)
          /\ outcome.results[rules[outcome.fired[n].rule].target_param] =
                rules[outcome.fired[n].rule].max_out

\* the transform output of the n-th rule that fired in the last apply,
\* before it is rounded for the report
Unrounded(n) ==
    LET f == outcome.fired[n]
        rule == rules[f.rule]
    IN  IF rule.transform = "smooth"
        THEN LET u == CHOOSE m \in 1..Len(outcome.updates) :
                         outcome.updates[m].rule = f.rule
             IN  linear_map(outcome.updates[u].state, rule.min_out, rule.max_out)
        ELSE IF rule.transform = "exponential"
             THEN exponential_map(f.raw, rule.min_out, rule.max_out)
        ELSE IF rule.transform = "threshold"
             THEN threshold_gate(f.raw, rule.min_out, rule.max_out)
        ELSE IF rule.transform = "invert"
             THEN invert(f.raw, rule.min_out, rule.max_out)
        ELSE linear_map(f.raw, rule.min_out, rule.max_out)

(***************************************************************************)
(* C18: every value of every apply result is a transform output rounded to *)
(* 6 decimals: it is a multiple of 0.000001 and lies within 0.0000005 of   *)
(* the unrounded output of the last rule that fired for its key, whatever  *)
(* the transform.                                                          *)
(***************************************************************************)
C18_ResultsRoundedToSixDecimals ==
    outcome.status = "returned" =>
       \A k \in DOMAIN outcome.results :
          /\ outcome.results[k] % Grain = 0
          /\ FiredFor(k) # {}
          /\ 2 * Abs(outcome.results[k] - Unrounded(SetMax(FiredFor(k)))) <= Grain

\* a result holds a value that rounding moved up and one that it left alone
C18_Witness ==
    /\ outcome.status = "returned"
    /\ \E k \in DOMAIN outcome.results :
          outcome.results[k] > Unrounded(SetMax(FiredFor(k)))
    /\ \E k \in DOMAIN outcome.results :
          /\ outcome.results[k] = Unrounded(SetMax(FiredFor(k)))
          /\ rules[outcome.fired[SetMax(FiredFor(k))].rule].transform = "smooth"

HandedOn ==
    {seen.rendered[k] : k \in 1..Len(seen.rendered)}
       \cup {seen.called[k] : k \in 1..Len(seen.called)}

(***************************************************************************)
(* C15: a parameter the router drops (its key has no dot, or its prefix is *)
(* no registered category) appears in nothing the engine hands to the      *)
(* renderer or to a frame callback, and so in no OSC message: every key of *)
(* the params handed on is a routed one, and every OSC address is the      *)
(* address of a routed parameter.                                          *)
(***************************************************************************)
C15_DroppedParamsInvisible ==
    \A data \in HandedOn :
       /\ \A key \in DOMAIN data.params :
             HasDot(key) /\ Category(key) \in DOMAIN registry
       /\ \A address \in OscAddresses(data) :
             \E c \in DOMAIN data.routed : \E n \in DOMAIN data.routed[c] :
                address = OscAddress(c \o <<Dot>> \o n)

(***************************************************************************)
(* C19: frame_count is 0 on a new engine and counts the executed ticks,    *)
(* whether step or run executed them (each tick is one apply per sensor    *)
(* and one route call); the frame_data of the k-th tick carries frame      *)
(* k - 1; a renderer sees the frames 0, 1, 2, ... with no gap and no       *)
(* repeat, and frame callbacks see frames in increasing order.             *)
(***************************************************************************)
C19_FramesCountTicks ==
    engine.state = "built" =>
       /\ applies = engine.frame_count * Len(engine.sensors)
       /\ history.calls = (IF engine.frame_count < 2 THEN engine.frame_count
                           ELSE 2)
       /\ engine.frame_count > 0 => frame_data.frame = engine.frame_count - 1
       /\ IF engine.renderer
          THEN /\ Len(seen.rendered) = engine.frame_count
               /\ \A k \in 1..Len(seen.rendered) : seen.rendered[k].frame = k - 1
          ELSE seen.rendered = <<>>
       /\ \A k \in 1..Len(seen.called) :
             /\ seen.called[k].frame < engine.frame_count
             /\ k > 1 => seen.called[k - 1].frame <= seen.called[k].frame

\* two ticks ran with a renderer and a callback, a run call among the calls
C19_Witness ==
    /\ engine.state = "built"
    /\ engine.renderer
    /\ engine.frame_count = 2
    /\ engine.tick_rate = 10
    /\ Len(seen.rendered) = 2
    /\ seen.rendered[2].frame = 1
    /\ seen.called # <<>>
    /\ Len(engine.sensors) = 2

(***************************************************************************)
(* C20: construction fails with ValueError, with nothing yet created, when *)
(* validate_config reports an error; so every constructed engine has a     *)
(* sensor, a mapping rule and an output, min_out <= max_out in every rule, *)
(* and tick_rate >= 1 as constructed.                                      *)
(***************************************************************************)
C20_ConstructedEngineIsValid ==
    /\ engine.state = "failed" =>
          /\ engine.raised = "ValueError"
          /\ engine.errors # <<>>
          /\ engine.created = {}
          /\ rules = <<>> /\ targets = <<>>
    /\ engine.state = "built" =>
          /\ engine.created = {"sensors", "outputs", "router", "mapper"}
          /\ validate_config(engine.config) = <<>>
          /\ rules = engine.config.mappings
          /\ targets = engine.config.outputs
          /\ engine.sensors = engine.config.sensors
          /\ Len(engine.sensors) >= 1
          /\ Len(rules) >= 1
          /\ Len(targets) >= 1
          /\ engine.config.tick_rate >= 1
          /\ \A i \in 1..Len(rules) : PyLe(rules[i].min_out, rules[i].max_out)
          /\ \A i \in 1..Len(rules) :
                rules[i].source_param # <<>> /\ rules[i].target_param # <<>>
          /\ \A i \in 1..Len(engine.sensors) :
                engine.sensors[i] \in SENSOR_REGISTRY
          /\ \A i \in 1..Len(targets) : targets[i] \in OUTPUT_REGISTRY

(***************************************************************************)
(* C24: for every OscRenderer with buffer_size >= 0, after any calls of    *)
(* render, clear_buffer and format_bundle, the buffer holds at most        *)
(* buffer_size messages, and they are the most recently pushed ones in the *)
(* order they were pushed.                                                 *)
(***************************************************************************)
C24_BufferBoundedAndLatest ==
    (osc.state = "made" /\ osc.buffer_size >= 0) =>
       /\ Len(osc.buffer) <= osc.buffer_size
       /\ Len(osc.buffer) <= Len(osc.pushed)
       /\ osc.buffer = SubSeq(osc.pushed,
                              Len(osc.pushed) - Len(osc.buffer) + 1,
                              Len(osc.pushed))
       /\ Len(osc.pushed) >= osc.buffer_size =>
             Len(osc.buffer) = osc.buffer_size

(***************************************************************************)
(* C25: messages_total is the number of parameters given to render since   *)
(* construction; eviction, clear_buffer, get_buffer and format_bundle      *)
(* never change it, and get_buffer and format_bundle leave the buffer as   *)
(* it is.                                                                  *)
(***************************************************************************)
C25_MessagesTotalCountsRendered ==
    /\ [](osc.state = "made" => osc.messages_total = osc.given)
    /\ [][/\ osc'.last \in {"clear_buffer", "get_buffer", "format_bundle"} =>
                osc'.messages_total = osc.messages_total
          /\ osc'.last \in {"get_buffer", "format_bundle"} =>
                osc'.buffer = osc.buffer
          /\ osc'.last = "render" =>
                \E data \in OscFrames :
                   osc'.messages_total =
                      osc.messages_total + Cardinality(DOMAIN GetParams(data))]_vars

\* format_bundle was called after messages were evicted and after a
\* clear_buffer, with messages in the buffer
C25_Witness ==
    /\ osc.last = "format_bundle"
    /\ osc.returned # <<>>
    /\ osc.buffer # <<>>
    /\ Len(osc.buffer) < Len(osc.pushed)
    /\ Len(osc.pushed) < osc.messages_total

(***************************************************************************)
(* C22: after a run call returns, average_fps is the number of frames that *)
(* run produced divided by that run's elapsed time, whatever step or run   *)
(* calls came before; before any run it is 0.0.                            *)
(***************************************************************************)
C22_AverageFpsOfLastRun ==
    /\ (loop.pc \in {"ready", "returned"} /\ loop.runs = 0) =>
          average_fps(loop) = 0
    /\ (loop.pc = "returned" /\ loop.elapsed_time > 0) =>
          average_fps(loop) = Fps(loop.frames, loop.elapsed_time)

(***************************************************************************)
(* C26 as stated: a run with duration_seconds > 0 has executed at least    *)
(* one pass when it returns (and called render at least once if there is a *)
(* renderer); a run with duration_seconds <= 0 executes none.              *)
(***************************************************************************)
C26_PositiveDurationTicksOnce ==
    loop.pc = "returned" =>
       /\ loop.duration > 0 =>
             (loop.frames >= 1 /\ (loop.renderer => loop.renders >= 1))
       /\ loop.duration <= 0 => loop.frames = 0

(***************************************************************************)
(* C26, as the code has it: a run executes at least one pass (with a       *)
(* render call if there is a renderer) exactly if the clock, when the loop *)
(* first reads it, is less than duration_seconds past start; so a run with *)
(* duration_seconds <= 0 executes none, and one with a positive duration   *)
(* executes none if that much time passed before the first reading.        *)
(***************************************************************************)
C26_TicksIfDeadlineNotPassedAtFirstCheck ==
    loop.pc = "returned" =>
       /\ loop.first_wait >= 0
       /\ loop.first_wait < loop.duration =>
             (loop.frames >= 1 /\ (loop.renderer => loop.renders >= 1))
       /\ loop.first_wait >= loop.duration =>
             (loop.frames = 0 /\ loop.renders = 0)
       /\ loop.duration <= 0 => loop.frames = 0
       /\ ~loop.renderer => loop.renders = 0

\* runs of a positive duration returned with a pass and with none, with
\* and without a renderer
C26_Witness ==
    /\ loop.pc = "returned"
    /\ loop.duration > 0
    /\ loop.first_wait = 0
    /\ loop.frames >= 2
    /\ loop.renderer
    /\ loop.renders = loop.frames

(***************************************************************************)
(* C27: no pass of the loop of run begins when duration_seconds or more    *)
(* have elapsed on the monotonic clock since run began.                    *)
(***************************************************************************)
C27_NoTickAtOrAfterDeadline ==
    ~loop.late

(***************************************************************************)
(* C23: in the simulation driver, whenever the terminal renderer has       *)
(* hidden the cursor, the cursor is eventually shown again, however the    *)
(* run ends: normally, by KeyboardInterrupt at any point of the loop, or   *)
(* by an exception of a tick, a render or a callback; and main is never    *)
(* left with the cursor hidden.                                            *)
(***************************************************************************)
C23_CursorEventuallyShown ==
    /\ (driver.cursor = "hidden") ~> (driver.cursor = "shown")
    /\ [](driver.pc \in {"summary", "raised"} => driver.cursor = "shown")

\* an exception raised in the first render, after the cursor was hidden,
\* has left main, and the cursor is shown
C23_Witness ==
    /\ driver.pc = "raised"
    /\ driver.pending = "Exception"
    /\ driver.at = "render"
    /\ driver.frames = 1
    /\ ~driver.first_frame
    /\ driver.cursor = "shown"

\* the calls so far that were given the frame_data of pass k
CallsOfPass(k) ==
    {i \in 1..Len(seen.events) : seen.events[i].data.frame = k - 1}

C29_LaterSensorOverwrites ==
    (engine.state = "built" /\ engine.frame_count > 0) =>
       /\ Len(seen.merged) = Len(engine.sensors)
       /\ \A i \in 1..Len(seen.merged) : \A key \in DOMAIN seen.merged[i] :
             \E n \in 1..Len(rules) :
                /\ rules[n].target_param = key
                /\ Category(rules[n].source_param) = engine.sensors[i]
       /\ DOMAIN frame_data.params =
             UNION {DOMAIN seen.merged[i] : i \in 1..Len(seen.merged)}
       /\ \A key \in DOMAIN frame_data.params :
             LET last == SetMax({i \in 1..Len(seen.merged) :
                                    key \in DOMAIN seen.merged[i]})
             IN  /\ frame_data.params[key] = seen.merged[last][key]
                 /\ (HasDot(key) /\ Category(key) \in DOMAIN registry) =>
                       frame_data.routed[Category(key)][AfterFirstDot(key)]
                          = seen.merged[last][key]
       /\ params = frame_data.params
       /\ routed = frame_data.routed
       /\ history.calls = (IF engine.frame_count = 1 THEN 1 ELSE 2)

\* the rule of the second sensor is declared first, both sensors produced
\* the parameter with different values, and the second sensor's is kept
C29_Witness ==
    /\ engine.state = "built"
    /\ engine.frame_count > 0
    /\ engine.sensors = <<<<"d">>, <<"m">>>>
    /\ Len(rules) = 2
    /\ Category(rules[1].source_param) = <<"m">>
    /\ Category(rules[2].source_param) = <<"d">>
    /\ Len(seen.merged) = 2
    /\ v_x \in DOMAIN seen.merged[1] /\ v_x \in DOMAIN seen.merged[2]
    /\ seen.merged[1][v_x] # seen.merged[2][v_x]
    /\ frame_data.params[v_x] = seen.merged[2][v_x]

SmoothFree(rs) == \A i \in 1..Len(rs) : rs[i].transform # "smooth"

\* what the last apply returned or raised
Ended(run) ==
    [status |-> IF run.raised = "no" THEN "returned" ELSE run.raised,
     results |-> IF run.raised = "no" THEN run.results ELSE EmptyDict]

C30_AppliedAsOnFreshEngine ==
    applies > 0 =>
       LET again == ApplyRun(rules, outcome.before, smooth_alpha, reading)
           fresh == ApplyRun(rules, EmptyDict, smooth_alpha, reading)
           ended == [status |-> outcome.status, results |-> outcome.results]
       IN  /\ ended = Ended(again)
           /\ smoothers = again.smoothers
           /\ SmoothFree(rules) => /\ ended = Ended(fresh)
                                   /\ smoothers = EmptyDict
           /\ reading \in Readings

C30_RulesKept == [][rules' = rules]_vars

====
